---- MODULE Spec2Model ----
(***************************************************************************)
(* Model of the ADK-learning projects.                                     *)
(*                                                                         *)
(* Finance agent (project3-finance-agent): database.py (DatabaseManager    *)
(* over the transactions, budgets and goals tables) and the tool wrappers  *)
(* of finance_tools.py. Rows are kept in insertion order; the primary key  *)
(* of a row is its position (SQLite assigns 1, 2, 3, ... and nothing is    *)
(* ever deleted).                                                          *)
(* Weather assistant (project1): the tools of weather_tools.py.            *)
(* Agent wrappers (projects 1 to 6): query / execute_task with its session *)
(* recovery, reset, and the interactive loop of main().                    *)
(* Support agent (project5): the ticket files of ticket_system.py.         *)
(* Research assistant (project2): the reports of document_generator.py.    *)
(*                                                                         *)
(* Datetimes are day numbers; datetime.now() is an input of the operation  *)
(* that reads it (the wall clock is not monotonic). Python's None is       *)
(* NoneDate / NoneNum / NoneStr according to the type it stands in for.    *)
(* result holds what the last call returned (or raised).                   *)
(***************************************************************************)
EXTENDS Integers, Sequences, FiniteSets, TLC

VARIABLES transactions, budgets, goals, result,
          tickets,
          project, loop, session_id, sessions, call,
          generator, last_report,
          research_context, research,
          connections

\* the finance agent's tables
finVars == <<transactions, budgets, goals>>
\* the support agent's ticket files
ticketVars == <<tickets>>
\* an agent wrapper, its session service and its interactive loop
agentVars == <<project, loop, session_id, sessions, call>>
\* the research assistant's document generator and its previous report
reportVars == <<generator, last_report>>
\* the research agent's saved context and the position of its current call
researchVars == <<research_context, research>>
\* the storage connections that run create_budget step by step
connVars == <<connections>>
restVars == <<researchVars, connVars>>
\* what the finance agent's operations never touch
others == <<ticketVars, agentVars, reportVars, restVars>>

vars == <<transactions, budgets, goals, result, tickets,
          project, loop, session_id, sessions, call, generator,
          last_report, research_context, research, connections>>

(* ---------------- bounds ---------------- *)
MaxTxns == 2
MaxBudgets == 3
MaxGoals == 2
MaxStoreRows == 2

(* ---------------- Python values ---------------- *)
NoneDate == 0
NoneNum == -99
NoneStr == "<None>"

\* bool(s) for an Optional[str]: None and "" are falsy
StrTruthy(s) == s # NoneStr /\ s # ""
\* bool(x) for an Optional[float]: None and 0 are falsy
NumTruthy(x) == x # NoneNum /\ x # 0

INCOME == "INCOME"
EXPENSE == "EXPENSE"
TransactionType == {INCOME, EXPENSE}

\* the values the operations' inputs are drawn from
Dates == {1, 2}
Amounts == {-1, 1, 2}
Categories == {"Food & Dining", "Shopping"}
Descriptions == {"Test"}

(* ---------------- transactions: database.py ---------------- *)

\* Transaction(...): the row add_transaction builds (date=date or datetime.now())
Transaction(id, amount, category, description, transaction_type, date, now) ==
    [id |-> id,
     date |-> IF date # NoneDate THEN date ELSE now,
     amount |-> amount,
     category |-> category,
     description |-> description,
     transaction_type |-> transaction_type]

\* a mutation: the new row replaces the last stored one instead of being appended
add_transaction_overwrite(amount, category, description, transaction_type, date, now) ==
    IF transactions = <<>>
    THEN <<Transaction(1, amount, category, description, transaction_type, date, now)>>
    ELSE [transactions EXCEPT ![Len(transactions)] =
            Transaction(Len(transactions), amount, category, description,
                        transaction_type, date, now)]

\* DatabaseManager.add_transaction: the table after session.add and commit
add_transaction(amount, category, description, transaction_type, date, now) ==
    Append(transactions,
           Transaction(Len(transactions) + 1, amount, category, description,
                       transaction_type, date, now))

\* the WHERE clause get_transactions builds: a filter is applied when truthy
Matches(t, start_date, end_date, category, transaction_type) ==
    /\ (start_date # NoneDate => t.date >= start_date)
    /\ (end_date # NoneDate => t.date <= end_date)
    /\ (StrTruthy(category) => t.category = category)
    /\ (transaction_type # NoneStr => t.transaction_type = transaction_type)

\* ORDER BY date DESC over the rows `ids`; rows of equal date come in any order
OrderByDateDesc(rows, ids) ==
    { [k \in 1..Cardinality(ids) |-> rows[f[k]]] :
        f \in { g \in [1..Cardinality(ids) -> ids] :
                  \A i, j \in 1..Cardinality(ids) :
                      i < j => g[i] # g[j] /\ rows[g[i]].date >= rows[g[j]].date } }

\* DatabaseManager.get_transactions: the result lists the query can return
get_transactions(start_date, end_date, category, transaction_type) ==
    OrderByDateDesc(transactions,
        { i \in 1..Len(transactions) :
            Matches(transactions[i], start_date, end_date, category, transaction_type) })

\* a mutation: the dict keeps the last amount of a category instead of the sum
RECURSIVE SpendingLast(_, _)
SpendingLast(ts, spending) ==
    IF ts = <<>> THEN spending
    ELSE SpendingLast(Tail(ts), (Head(ts).category :> Head(ts).amount) @@ spending)

\* the loop of get_spending_by_category:
\*   spending[t.category] = spending.get(t.category, 0.0) + t.amount
RECURSIVE SpendingFold(_, _)
SpendingFold(ts, spending) ==
    IF ts = <<>> THEN spending
    ELSE LET t == Head(ts)
             prev == IF t.category \in DOMAIN spending THEN spending[t.category] ELSE 0
         IN SpendingFold(Tail(ts), (t.category :> (prev + t.amount)) @@ spending)

\* sum(t.amount for t in transactions)
RECURSIVE SumAmounts(_)
SumAmounts(ts) == IF ts = <<>> THEN 0 ELSE Head(ts).amount + SumAmounts(Tail(ts))

\* DatabaseManager.get_spending_by_category
get_spending_by_category(start_date, end_date) ==
    { SpendingFold(ts, <<>>) : ts \in get_transactions(start_date, end_date, NoneStr, EXPENSE) }

\* DatabaseManager.get_total_income
get_total_income(start_date, end_date) ==
    { SumAmounts(ts) : ts \in get_transactions(start_date, end_date, NoneStr, INCOME) }

\* DatabaseManager.get_total_expenses
get_total_expenses(start_date, end_date) ==
    { SumAmounts(ts) : ts \in get_transactions(start_date, end_date, NoneStr, EXPENSE) }


(* ---------------- transactions: finance_tools.py ---------------- *)

\* the strings the tool is called with
TypeStrings == {"income", "Income", "expense", "refund", NoneStr}
DateStrings == {NoneStr, "", "2024-01-01", "2024-01-02", "01/02/2024"}

\* str.lower() on the type strings
Lower(s) == IF s = "Income" THEN "income" ELSE s

\* datetime.strptime(date, "%Y-%m-%d"): NoneDate stands for ValueError
Strptime(s) ==
    CASE s = "2024-01-01" -> 1
      [] s = "2024-01-02" -> 2
      [] OTHER -> NoneDate

\* what the try block of the tool add_transaction raises before the insert:
\* None.lower() is an AttributeError, an unparsable date a ValueError
ToolAddRaises(transaction_type, date) ==
    \/ transaction_type = NoneStr
    \/ (StrTruthy(date) /\ Strptime(date) = NoneDate)

\* the enum the tool stores: INCOME if transaction_type.lower() == "income" else EXPENSE
ToolTransactionType(transaction_type) ==
    IF Lower(transaction_type) = "income" THEN INCOME ELSE EXPENSE

\* finance_tools.add_transaction, the whole call
tool_add_transaction(amount, category, description, transaction_type, date, now) ==
    /\ IF ToolAddRaises(transaction_type, date)
       THEN /\ transactions' = transactions
            /\ result' = [op |-> "tool_add_transaction",
                          transaction_type |-> transaction_type,
                          value |-> "Error adding transaction",
                          connection |-> "open"]
       ELSE /\ transactions' =
                  add_transaction(amount, category, description,
                                  ToolTransactionType(transaction_type),
                                  IF StrTruthy(date) THEN Strptime(date) ELSE NoneDate,
                                  now)
            /\ result' = [op |-> "tool_add_transaction",
                          transaction_type |-> transaction_type,
                          value |-> "Successfully added",
                          connection |-> "closed"]
    /\ UNCHANGED <<budgets, goals, others>>

(* ---------------- initial state and the ledger's operations ---------------- *)

Init ==
    /\ transactions = <<>>
    /\ budgets = <<>>
    /\ goals = <<>>
    /\ result = [op |-> "init"]
    /\ tickets = <<>>
    /\ project = "none"
    /\ loop = "none"
    /\ session_id = 0
    /\ sessions = {}
    /\ call = [pc |-> "idle", depth |-> 0, runs |-> 0]
    /\ generator = [template |-> "none"]
    /\ last_report = [op |-> "none"]
    /\ research_context = [sources |-> <<>>, findings |-> <<>>,
                           current_topic |-> "<None>"]
    /\ research = [pc |-> "none", saved |-> <<>>, found |-> <<>>]
    /\ connections = [c \in {1, 2} |-> [pc |-> "idle"]]

\* DatabaseManager.add_transaction, the whole call; it returns the new row
DbAddTransaction(amount, category, description, transaction_type, date, now) ==
    /\ transactions' = add_transaction(amount, category, description,
                                       transaction_type, date, now)
    /\ result' = [op |-> "add_transaction", value |-> transactions'[Len(transactions')]]
    /\ UNCHANGED <<budgets, goals, others>>

\* DatabaseManager.get_transactions, the whole call
DbGetTransactions(start_date, end_date, category, transaction_type) ==
    \E rows \in get_transactions(start_date, end_date, category, transaction_type) :
       /\ result' = [op |-> "get_transactions", start_date |-> start_date,
                     end_date |-> end_date, category |-> category,
                     transaction_type |-> transaction_type, value |-> rows]
       /\ UNCHANGED <<transactions, budgets, goals, others>>

\* DatabaseManager.get_spending_by_category, the whole call
DbGetSpendingByCategory(start_date, end_date) ==
    \E spending \in get_spending_by_category(start_date, end_date) :
       /\ result' = [op |-> "get_spending_by_category", start_date |-> start_date,
                     end_date |-> end_date, value |-> spending]
       /\ UNCHANGED <<transactions, budgets, goals, others>>

\* DatabaseManager.get_total_income, the whole call
DbGetTotalIncome(start_date, end_date) ==
    \E total \in get_total_income(start_date, end_date) :
       /\ result' = [op |-> "get_total_income", start_date |-> start_date,
                     end_date |-> end_date, value |-> total]
       /\ UNCHANGED <<transactions, budgets, goals, others>>

\* DatabaseManager.get_total_expenses, the whole call
DbGetTotalExpenses(start_date, end_date) ==
    \E total \in get_total_expenses(start_date, end_date) :
       /\ result' = [op |-> "get_total_expenses", start_date |-> start_date,
                     end_date |-> end_date, value |-> total]
       /\ UNCHANGED <<transactions, budgets, goals, others>>

\* a call of DatabaseManager.add_transaction
AddTransaction ==
    /\ Len(transactions) < MaxTxns
    /\ \E amount \in Amounts, category \in Categories, description \in Descriptions,
          transaction_type \in TransactionType, date \in Dates \cup {NoneDate},
          now \in Dates :
          DbAddTransaction(amount, category, description, transaction_type, date, now)

\* a call of the tool add_transaction
ToolAddTransaction ==
    /\ Len(transactions) < MaxTxns
    /\ \E amount \in Amounts, category \in Categories, description \in Descriptions,
          transaction_type \in TypeStrings, date \in DateStrings, now \in Dates :
          tool_add_transaction(amount, category, description, transaction_type, date, now)

\* a call of DatabaseManager.get_spending_by_category
GetSpendingByCategory ==
    \E start_date \in Dates \cup {NoneDate}, end_date \in Dates \cup {NoneDate} :
       DbGetSpendingByCategory(start_date, end_date)

\* a call of DatabaseManager.get_total_income
GetTotalIncome ==
    \E start_date \in Dates \cup {NoneDate}, end_date \in Dates \cup {NoneDate} :
       DbGetTotalIncome(start_date, end_date)

\* a call of DatabaseManager.get_total_expenses
GetTotalExpenses ==
    \E start_date \in Dates \cup {NoneDate}, end_date \in Dates \cup {NoneDate} :
       DbGetTotalExpenses(start_date, end_date)

LedgerNext ==
    \/ AddTransaction
    \/ ToolAddTransaction
    \/ GetSpendingByCategory
    \/ GetTotalIncome
    \/ GetTotalExpenses

SpecLedger == Init /\ [][LedgerNext]_vars
(* ---------------- properties of the ledger ---------------- *)

\* the stored expenses dated inside the window [start_date, end_date]
ExpensesInWindow(start_date, end_date) ==
    { i \in 1..Len(transactions) :
        /\ transactions[i].transaction_type = EXPENSE
        /\ (start_date # NoneDate => transactions[i].date >= start_date)
        /\ (end_date # NoneDate => transactions[i].date <= end_date) }

\* the sum of the amounts of the stored rows S
RECURSIVE AmountOf(_)
AmountOf(S) ==
    IF S = {} THEN 0
    ELSE LET i == CHOOSE j \in S : TRUE
         IN transactions[i].amount + AmountOf(S \ {i})

\* C3: totalsByCategory returns a mapping whose keys are exactly the categories
\* with at least one expense dated inside the window, each mapped to the sum of
\* those expense amounts; income rows never contribute.
C3_TotalsByCategory ==
    result.op = "get_spending_by_category" =>
        LET W == ExpensesInWindow(result.start_date, result.end_date)
        IN /\ DOMAIN result.value = { transactions[i].category : i \in W }
           /\ \A c \in DOMAIN result.value :
                 result.value[c] = AmountOf({ i \in W : transactions[i].category = c })

\* C3 witness: two expenses of one category, 1 and 2, are summed to 3.
C3_Witness ==
    /\ result.op = "get_spending_by_category"
    /\ Len(transactions) >= 2
    /\ \E i, j \in ExpensesInWindow(result.start_date, result.end_date) :
          /\ i # j
          /\ transactions[i].category = transactions[j].category
          /\ transactions[i].amount = 1 /\ transactions[j].amount = 2
          /\ result.value = (transactions[i].category :> 3)

\* a second case of C3: an expense dated outside the window is stored and its
\* category is absent from the totals.
C3_WindowCase ==
    /\ result.op = "get_spending_by_category"
    /\ result.value = <<>>
    /\ \E i \in 1..Len(transactions) : transactions[i].transaction_type = EXPENSE

\* C4: every stored transaction has an amount strictly greater than zero.
C4_AmountsPositive ==
    \A i \in 1..Len(transactions) : transactions[i].amount > 0

\* C5: a tool add_transaction call whose type is neither income nor expense
\* stores nothing.
C5_UnrecognizedTypeStoresNothing ==
    [][\A amount \in Amounts, category \in Categories, description \in Descriptions,
          transaction_type \in TypeStrings, date \in DateStrings, now \in Dates :
          (/\ Lower(transaction_type) \notin {"income", "expense"}
           /\ tool_add_transaction(amount, category, description, transaction_type,
                                   date, now))
          => transactions' = transactions]_vars

(* ---------------- listing the ledger ---------------- *)

\* the categories the listing is exercised with; "" is a str like any other
ListCategories == {"", "Food & Dining"}

\* a call of DatabaseManager.add_transaction, amounts left aside
ListAddTransaction ==
    /\ Len(transactions) < MaxTxns
    /\ \E category \in ListCategories, description \in Descriptions,
          transaction_type \in TransactionType, date \in Dates \cup {NoneDate},
          now \in Dates :
          DbAddTransaction(1, category, description, transaction_type, date, now)

\* a call of DatabaseManager.get_transactions
GetTransactions ==
    \E start_date \in Dates \cup {NoneDate}, end_date \in Dates \cup {NoneDate},
       category \in ListCategories \cup {NoneStr},
       transaction_type \in TransactionType \cup {NoneStr} :
       DbGetTransactions(start_date, end_date, category, transaction_type)

ListNext == ListAddTransaction \/ GetTransactions

SpecList == Init /\ [][ListNext]_vars

\* C6: listTransactions returns exactly the stored transactions satisfying every
\* supplied filter (a filter is supplied when it is not None), each once, ordered
\* by date with the most recent first.
C6_ListTransactions ==
    result.op = "get_transactions" =>
        LET rows == result.value
        IN /\ { rows[k] : k \in 1..Len(rows) } =
                { transactions[i] : i \in
                    { j \in 1..Len(transactions) :
                        /\ (result.start_date # NoneDate =>
                               transactions[j].date >= result.start_date)
                        /\ (result.end_date # NoneDate =>
                               transactions[j].date <= result.end_date)
                        /\ (result.category # NoneStr =>
                               transactions[j].category = result.category)
                        /\ (result.transaction_type # NoneStr =>
                               transactions[j].transaction_type = result.transaction_type) } }
           /\ \A k, l \in 1..Len(rows) :
                 k < l => rows[k] # rows[l] /\ rows[k].date >= rows[l].date

(* ---------------- budgets: database.py ---------------- *)

BudgetAmounts == {1, 2}
Periods == {"monthly", "yearly"}

\* Budget(...): start_date defaults to datetime.now, end_date to NULL
Budget(id, category, amount, period, now) ==
    [id |-> id, category |-> category, amount |-> amount, period |-> period,
     start_date |-> now, end_date |-> NoneDate]

\* a mutation: the open budgets of the category are not closed
create_budget_keep_open(category, amount, period, now) ==
    Append(budgets, Budget(Len(budgets) + 1, category, amount, period, now))

\* a mutation: every open budget is closed, whatever its category
create_budget_close_all(category, amount, period, now) ==
    Append([i \in 1..Len(budgets) |->
               IF budgets[i].end_date = NoneDate
               THEN [budgets[i] EXCEPT !.end_date = now]
               ELSE budgets[i]],
           Budget(Len(budgets) + 1, category, amount, period, now))

\* DatabaseManager.create_budget: the table after the commit. The open budgets of
\* the category get end_date = datetime.now(), then the new row is inserted.
create_budget(category, amount, period, now) ==
    Append([i \in 1..Len(budgets) |->
               IF budgets[i].category = category /\ budgets[i].end_date = NoneDate
               THEN [budgets[i] EXCEPT !.end_date = now]
               ELSE budgets[i]],
           Budget(Len(budgets) + 1, category, amount, period, now))

\* the filter of get_budgets
BudgetSelected(b, active_only) == active_only => b.end_date = NoneDate

\* DatabaseManager.get_budgets: the rows come in primary-key order
get_budgets(active_only) ==
    SelectSeq(budgets, LAMBDA b : BudgetSelected(b, active_only))

\* DatabaseManager.create_budget, the whole call; it returns the new row
DbCreateBudget(category, amount, period, now) ==
    /\ budgets' = create_budget(category, amount, period, now)
    /\ result' = [op |-> "create_budget", value |-> budgets'[Len(budgets')]]
    /\ UNCHANGED <<transactions, goals, others>>

\* DatabaseManager.get_budgets, the whole call
DbGetBudgets(active_only) ==
    /\ result' = [op |-> "get_budgets", active_only |-> active_only,
                  value |-> get_budgets(active_only)]
    /\ UNCHANGED <<transactions, budgets, goals, others>>

\* a call of DatabaseManager.create_budget
CreateBudget ==
    /\ Len(budgets) < MaxBudgets
    /\ \E category \in Categories, amount \in BudgetAmounts, period \in Periods,
          now \in Dates :
          DbCreateBudget(category, amount, period, now)

\* a call of DatabaseManager.get_budgets
GetBudgets == \E active_only \in BOOLEAN : DbGetBudgets(active_only)

BudgetNext == CreateBudget \/ GetBudgets

SpecBudget == Init /\ [][BudgetNext]_vars

\* C1: every category has at most one budget row whose end date is absent.
C1_OneOpenBudgetPerCategory ==
    \A i, j \in 1..Len(budgets) :
        (/\ budgets[i].category = budgets[j].category
         /\ budgets[i].end_date = NoneDate
         /\ budgets[j].end_date = NoneDate) => i = j

\* C1 witness: a category received three budgets, the first two are closed.
C1_Witness ==
    /\ Len(budgets) >= 3
    /\ budgets[1].category = budgets[2].category
    /\ budgets[2].category = budgets[3].category
    /\ budgets[1].end_date # NoneDate
    /\ budgets[2].end_date # NoneDate
    /\ budgets[3].end_date = NoneDate

\* the most recently created budget of a category
LatestBudget(category) ==
    CHOOSE i \in 1..Len(budgets) :
        /\ budgets[i].category = category
        /\ \A j \in 1..Len(budgets) : budgets[j].category = category => j <= i

\* C10: listBudgets(true) returns exactly the rows with no end date, which are the
\* most recently created budget of each category that ever received one, one row
\* per category; listBudgets(false) returns every row ever created.
C10_ListBudgets ==
    result.op = "get_budgets" =>
        LET rows == { result.value[k] : k \in 1..Len(result.value) }
            all == { budgets[i] : i \in 1..Len(budgets) }
        IN IF result.active_only
           THEN /\ rows = { b \in all : b.end_date = NoneDate }
                /\ rows = { budgets[LatestBudget(c)] : c \in { b.category : b \in all } }
                /\ Len(result.value) = Cardinality({ b.category : b \in all })
           ELSE /\ rows = all
                /\ Len(result.value) = Len(budgets)

\* C10 witness: two categories, one of them budgeted twice; the active listing has
\* two rows, the second and third created.
C10_Witness ==
    /\ result.op = "get_budgets"
    /\ result.active_only
    /\ Len(budgets) = 3
    /\ budgets[1].category = budgets[3].category
    /\ budgets[2].category # budgets[1].category
    /\ result.value = <<budgets[2], budgets[3]>>

(* ---------------- goals: database.py ---------------- *)

GoalNames == {"Emergency Fund"}
TargetAmounts == {1, 2}
CurrentAmounts == {0, 1, 2}
TargetDates == {NoneDate, 2}

\* Goal(...): status is not passed, the column default "active" applies
Goal(id, name, target_amount, current_amount, target_date) ==
    [id |-> id, name |-> name, target_amount |-> target_amount,
     current_amount |-> current_amount, target_date |-> target_date,
     status |-> "active"]

\* a mutation: a goal created at or above its target is inserted as achieved
create_goal_status_by_amount(name, target_amount, current_amount, target_date) ==
    Append(goals,
           [Goal(Len(goals) + 1, name, target_amount, current_amount, target_date)
               EXCEPT !.status = IF current_amount >= target_amount
                                 THEN "achieved" ELSE "active"])

\* DatabaseManager.create_goal: the table after the commit
create_goal(name, target_amount, current_amount, target_date) ==
    Append(goals, Goal(Len(goals) + 1, name, target_amount, current_amount, target_date))

\* an update that inserts a goal when none has this id
update_goal_progress_upsert(goal_id, amount) ==
    IF goal_id \in 1..Len(goals)
    THEN [goals EXCEPT ![goal_id] =
            [@ EXCEPT !.current_amount = amount,
                      !.status = IF amount >= goals[goal_id].target_amount
                                 THEN "achieved" ELSE goals[goal_id].status]]
    ELSE Append(goals, Goal(Len(goals) + 1, "Emergency Fund", amount, amount,
                            NoneDate))

\* a mutation: the status follows the amount in both directions
update_goal_progress_revert(goal_id, amount) ==
    IF goal_id \in 1..Len(goals)
    THEN [goals EXCEPT ![goal_id] =
            [@ EXCEPT !.current_amount = amount,
                      !.status = IF amount >= goals[goal_id].target_amount
                                 THEN "achieved" ELSE "active"]]
    ELSE goals

\* a mutation: the amount is added to the current amount
update_goal_progress_add(goal_id, amount) ==
    IF goal_id \in 1..Len(goals)
    THEN [goals EXCEPT ![goal_id] =
            [@ EXCEPT !.current_amount = @ + amount,
                      !.status = IF goals[goal_id].current_amount + amount
                                      >= goals[goal_id].target_amount
                                 THEN "achieved" ELSE goals[goal_id].status]]
    ELSE goals

\* DatabaseManager.update_goal_progress: the table after the call. The goal with
\* this id, when there is one, gets current_amount = amount and, when that is at
\* least target_amount, status = "achieved".
update_goal_progress(goal_id, amount) ==
    IF goal_id \in 1..Len(goals)
    THEN [goals EXCEPT ![goal_id] =
            [@ EXCEPT !.current_amount = amount,
                      !.status = IF amount >= goals[goal_id].target_amount
                                 THEN "achieved" ELSE goals[goal_id].status]]
    ELSE goals

\* the filter of get_goals
GoalSelected(g, active_only) == active_only => g.status = "active"

\* DatabaseManager.get_goals: the rows come in primary-key order
get_goals(active_only) ==
    SelectSeq(goals, LAMBDA g : GoalSelected(g, active_only))

\* DatabaseManager.create_goal, the whole call
DbCreateGoal(name, target_amount, current_amount, target_date) ==
    /\ goals' = create_goal(name, target_amount, current_amount, target_date)
    /\ result' = [op |-> "create_goal", value |-> goals'[Len(goals')]]
    /\ UNCHANGED <<transactions, budgets, others>>

\* DatabaseManager.update_goal_progress, the whole call; it returns the goal, or
\* None (here the string) when no goal has this id
DbUpdateGoalProgress(goal_id, amount) ==
    /\ goals' = update_goal_progress(goal_id, amount)
    /\ result' = [op |-> "update_goal_progress", goal_id |-> goal_id,
                  amount |-> amount,
                  found |-> goal_id \in 1..Len(goals)]
    /\ UNCHANGED <<transactions, budgets, others>>

\* DatabaseManager.get_goals, the whole call
DbGetGoals(active_only) ==
    /\ result' = [op |-> "get_goals", active_only |-> active_only,
                  value |-> get_goals(active_only)]
    /\ UNCHANGED <<transactions, budgets, goals, others>>

\* a call of DatabaseManager.create_goal
CreateGoal ==
    /\ Len(goals) < MaxGoals
    /\ \E name \in GoalNames, target_amount \in TargetAmounts,
          current_amount \in CurrentAmounts, target_date \in TargetDates :
          DbCreateGoal(name, target_amount, current_amount, target_date)

\* a call of DatabaseManager.update_goal_progress, the id existing or not
UpdateGoalProgress ==
    \E goal_id \in 1..(MaxGoals + 1), amount \in CurrentAmounts :
       DbUpdateGoalProgress(goal_id, amount)

\* a call of DatabaseManager.get_goals
GetGoals == \E active_only \in BOOLEAN : DbGetGoals(active_only)

(* ---------------- goals: finance_tools.py ---------------- *)

\* manage_goal(action="create", ...): `not name or not target_amount` rejects
\* None, "" and 0; current_amount or 0 replaces None
ManageGoalCreate ==
    /\ Len(goals) < MaxGoals
    /\ \E name \in GoalNames \cup {NoneStr, ""},
          target_amount \in TargetAmounts \cup {NoneNum, 0},
          current_amount \in CurrentAmounts \cup {NoneNum} :
          IF ~StrTruthy(name) \/ ~NumTruthy(target_amount)
          THEN /\ result' = [op |-> "manage_goal", action |-> "create",
                             value |-> "Error: Name and target_amount required for creating goal",
                             connection |-> "open"]
               /\ UNCHANGED <<transactions, budgets, goals, others>>
          ELSE /\ goals' = create_goal(name, target_amount,
                                       IF NumTruthy(current_amount) THEN current_amount ELSE 0,
                                       NoneDate)
               /\ result' = [op |-> "manage_goal", action |-> "create",
                             value |-> "Created goal",
                             connection |-> "closed"]
               /\ UNCHANGED <<transactions, budgets, others>>

\* manage_goal(action="update", ...): `not goal_id or current_amount is None`
\* rejects a goal_id of None or 0 and a current_amount of None
ManageGoalUpdate ==
    \E goal_id \in (0..(MaxGoals + 1)) \cup {NoneNum},
       current_amount \in CurrentAmounts \cup {NoneNum} :
       IF ~NumTruthy(goal_id) \/ current_amount = NoneNum
       THEN /\ result' = [op |-> "manage_goal", action |-> "update",
                          value |-> "Error: goal_id and current_amount required for updating",
                          connection |-> "open"]
            /\ UNCHANGED <<transactions, budgets, goals, others>>
       ELSE /\ goals' = update_goal_progress(goal_id, current_amount)
            /\ result' = [op |-> "manage_goal", action |-> "update",
                          goal_id |-> goal_id, amount |-> current_amount,
                          value |-> IF goal_id \in 1..Len(goals)
                                    THEN "Updated goal" ELSE "Error: Goal not found",
                          connection |-> "closed"]
            /\ UNCHANGED <<transactions, budgets, others>>

GoalNext ==
    \/ CreateGoal
    \/ UpdateGoalProgress
    \/ GetGoals
    \/ ManageGoalCreate
    \/ ManageGoalUpdate

SpecGoal == Init /\ [][GoalNext]_vars

\* C2: updateGoalProgress(id, x) with x >= the goal's target sets its status to
\* "achieved", and no later step changes the status of an achieved goal.
C2_AchievedIsPermanent ==
    [][/\ \A goal_id \in 1..Len(goals), amount \in CurrentAmounts :
             (/\ DbUpdateGoalProgress(goal_id, amount)
              /\ amount >= goals[goal_id].target_amount)
             => goals'[goal_id].status = "achieved"
       /\ \A i \in 1..Len(goals) :
             goals[i].status = "achieved" =>
                 i <= Len(goals') /\ goals'[i].status = "achieved"]_vars

\* C2 witness: an achieved goal whose current amount was later set below its target.
C2_Witness ==
    \E i \in 1..Len(goals) :
        /\ goals[i].status = "achieved"
        /\ goals[i].current_amount < goals[i].target_amount
        /\ result.op = "update_goal_progress"
        /\ result.goal_id = i

\* C9: updateGoalProgress(id, x) on an existing goal sets its current amount to
\* exactly x and leaves its id, name, target amount and target date, and every
\* other goal, unchanged.
C9_UpdateSetsCurrentAmount ==
    [][\A goal_id \in 1..Len(goals), amount \in CurrentAmounts :
          DbUpdateGoalProgress(goal_id, amount) =>
              /\ Len(goals') = Len(goals)
              /\ goals'[goal_id].current_amount = amount
              /\ goals'[goal_id].id = goals[goal_id].id
              /\ goals'[goal_id].name = goals[goal_id].name
              /\ goals'[goal_id].target_amount = goals[goal_id].target_amount
              /\ goals'[goal_id].target_date = goals[goal_id].target_date
              /\ \A j \in 1..Len(goals) : j # goal_id => goals'[j] = goals[j]]_vars

\* C9 witness: with two goals stored, a goal of target 2 that had reached 2 (it is
\* achieved) was updated with 1 and its current amount is 1.
C9_Witness ==
    /\ Len(goals) = 2
    /\ result.op = "update_goal_progress"
    /\ result.found
    /\ result.amount = 1
    /\ goals[result.goal_id].target_amount = 2
    /\ goals[result.goal_id].status = "achieved"
    /\ goals[result.goal_id].current_amount = 1

(* ---------------- the whole store ---------------- *)

\* Every operation of DatabaseManager on one store, and the tool add_transaction,
\* each table holding at most MaxStoreRows rows.
StoreAddTransaction ==
    /\ Len(transactions) < MaxStoreRows
    /\ \E transaction_type \in TransactionType :
          DbAddTransaction(2, "Shopping", "Test", transaction_type, NoneDate, 1)

StoreToolAddTransaction ==
    /\ Len(transactions) < MaxStoreRows
    /\ \E transaction_type \in {"income", "refund"}, date \in {"", "01/02/2024"} :
          tool_add_transaction(2, "Shopping", "Test", transaction_type, date, 1)

StoreGetTransactions ==
    \E transaction_type \in TransactionType \cup {NoneStr} :
       DbGetTransactions(NoneDate, NoneDate, NoneStr, transaction_type)

StoreGetSpendingByCategory == DbGetSpendingByCategory(NoneDate, NoneDate)

StoreGetTotalIncome == DbGetTotalIncome(NoneDate, NoneDate)

StoreGetTotalExpenses == DbGetTotalExpenses(NoneDate, NoneDate)

StoreCreateBudget ==
    /\ Len(budgets) < MaxStoreRows
    /\ \E category \in Categories : DbCreateBudget(category, 1, "monthly", 1)

StoreGetBudgets == \E active_only \in BOOLEAN : DbGetBudgets(active_only)

StoreCreateGoal ==
    /\ Len(goals) < MaxStoreRows
    /\ \E current_amount \in {0, 1} :
          DbCreateGoal("Emergency Fund", 1, current_amount, NoneDate)

StoreUpdateGoalProgress ==
    \E goal_id \in 1..MaxStoreRows, amount \in {0, 1} :
       DbUpdateGoalProgress(goal_id, amount)

StoreGetGoals == \E active_only \in BOOLEAN : DbGetGoals(active_only)

Next ==
    \/ StoreAddTransaction
    \/ StoreToolAddTransaction
    \/ StoreGetTransactions
    \/ StoreGetSpendingByCategory
    \/ StoreGetTotalIncome
    \/ StoreGetTotalExpenses
    \/ StoreCreateBudget
    \/ StoreGetBudgets
    \/ StoreCreateGoal
    \/ StoreUpdateGoalProgress
    \/ StoreGetGoals

Spec == Init /\ [][Next]_vars

\* C7: no step modifies or removes a stored transaction: every row stored before
\* a step is stored, unchanged and under the same id, after it.
C7_TransactionsImmutable ==
    [][\A i \in 1..Len(transactions) :
          i <= Len(transactions') /\ transactions'[i] = transactions[i]]_vars

\* C7 witness: a transaction was stored first, and a second one, a budget and an
\* achieved goal exist beside it when the transactions are listed.
C7_Witness ==
    /\ Len(transactions) = 2
    /\ Len(budgets) >= 1
    /\ \E i \in 1..Len(goals) : goals[i].status = "achieved"
    /\ result.op = "get_transactions"
    /\ Len(result.value) = 2

\* C8: a goal enters the table with status "active", whatever its amounts; a
\* stored goal's status changes only in a step of update_goal_progress on that
\* goal, and only to "achieved".
C8_GoalStatus ==
    [][\A i \in 1..Len(goals') :
          IF i > Len(goals)
          THEN goals'[i].status = "active"
          ELSE goals'[i].status # goals[i].status =>
                  /\ goals'[i].status = "achieved"
                  /\ \E amount \in CurrentAmounts :
                        goals' = update_goal_progress(i, amount)]_vars

\* C8 witness: a goal created at its target is active, and another goal is achieved.
C8_Witness ==
    /\ \E i \in 1..Len(goals) :
          /\ goals[i].status = "active"
          /\ goals[i].current_amount >= goals[i].target_amount
    /\ \E j \in 1..Len(goals) : goals[j].status = "achieved"

(* ================================================================== *)
(* Weather assistant (project1-weather-assistant/weather_tools.py)    *)
(* ================================================================== *)

\* how a Python call ends: it returns a value or it raises an exception
Return(value) == [outcome |-> "returned", value |-> value]
Raise(exception, message) ==
    [outcome |-> "raised", exception |-> exception, message |-> message]

\* the WMO codes the lookup is asked about
WeatherCodes == -1 .. 100

\* the dict literal of _get_weather_description
weather_codes ==
    ( 0 :> [main |-> "Clear", description |-> "clear sky"]
   @@ 1 :> [main |-> "Mainly Clear", description |-> "mainly clear"]
   @@ 2 :> [main |-> "Partly Cloudy", description |-> "partly cloudy"]
   @@ 3 :> [main |-> "Overcast", description |-> "overcast"]
   @@ 45 :> [main |-> "Foggy", description |-> "fog"]
   @@ 48 :> [main |-> "Foggy", description |-> "depositing rime fog"]
   @@ 51 :> [main |-> "Drizzle", description |-> "light drizzle"]
   @@ 53 :> [main |-> "Drizzle", description |-> "moderate drizzle"]
   @@ 55 :> [main |-> "Drizzle", description |-> "dense drizzle"]
   @@ 61 :> [main |-> "Rain", description |-> "slight rain"]
   @@ 63 :> [main |-> "Rain", description |-> "moderate rain"]
   @@ 65 :> [main |-> "Rain", description |-> "heavy rain"]
   @@ 71 :> [main |-> "Snow", description |-> "slight snow"]
   @@ 73 :> [main |-> "Snow", description |-> "moderate snow"]
   @@ 75 :> [main |-> "Snow", description |-> "heavy snow"]
   @@ 77 :> [main |-> "Snow", description |-> "snow grains"]
   @@ 80 :> [main |-> "Rain Showers", description |-> "slight rain showers"]
   @@ 81 :> [main |-> "Rain Showers", description |-> "moderate rain showers"]
   @@ 82 :> [main |-> "Rain Showers", description |-> "violent rain showers"]
   @@ 85 :> [main |-> "Snow Showers", description |-> "slight snow showers"]
   @@ 86 :> [main |-> "Snow Showers", description |-> "heavy snow showers"]
   @@ 95 :> [main |-> "Thunderstorm", description |-> "thunderstorm"]
   @@ 96 :> [main |-> "Thunderstorm",
             description |-> "thunderstorm with slight hail"]
   @@ 99 :> [main |-> "Thunderstorm",
             description |-> "thunderstorm with heavy hail"] )

\* dict.get(key, default)
DictGet(dict, key, default) ==
    IF key \in DOMAIN dict THEN dict[key] ELSE default

\* a lookup whose default is the entry of code 0
_get_weather_description_default_clear(code) ==
    DictGet(weather_codes, code, weather_codes[0])

\* _get_weather_description(code)
_get_weather_description(code) ==
    DictGet(weather_codes, code,
            [main |-> "Unknown", description |-> "unknown conditions"])

\* what the geocoding endpoint and the forecast endpoint can answer
GeoResponses == {"ok", "no_results", "connection_error", "http_error",
                 "missing_key", "wrong_type"}
WeatherResponses == {"ok", "connection_error", "http_error",
                     "missing_key", "wrong_type"}
\* the "weather_code" field of the answer; NoneNum: the field is absent
ResponseCodes == {NoneNum, 0, 3, 42}

\* requests.exceptions.RequestException and the subclasses raised here
RequestException == {"RequestException", "ConnectionError", "HTTPError"}

\* requests.get(...); response.raise_for_status(); response.json() and the
\* subscripts applied to the answer
Fetch(response, value) ==
    CASE response = "connection_error" ->
             Raise("ConnectionError", "connection failed")
      [] response = "http_error" -> Raise("HTTPError", "bad status")
      [] response = "missing_key" -> Raise("KeyError", "missing field")
      [] response = "wrong_type" -> Raise("TypeError", "not subscriptable")
      [] OTHER -> Return(value)

\* _get_coordinates(location): only RequestException is caught
_get_coordinates(geo) ==
    LET body == IF geo = "no_results"
                THEN Raise("WeatherAPIError", "Location not found")
                ELSE Fetch(geo, "coords")
    IN  IF body.outcome = "raised" /\ body.exception \in RequestException
        THEN Raise("WeatherAPIError", "Failed to geocode location")
        ELSE body

\* the except clauses of get_current_weather and get_forecast
WeatherExcept(body, message) ==
    IF body.outcome = "raised" /\ body.exception \in RequestException
    THEN Raise("WeatherAPIError", message)
    ELSE IF body.outcome = "raised" /\ body.exception = "KeyError"
    THEN Raise("WeatherAPIError", "Unexpected API response format")
    ELSE body

\* a tool that turns every failure into a returned error string
get_current_weather_error_string(geo, wx, weather_code) ==
    LET coords == _get_coordinates(geo)
        body == IF coords.outcome = "raised" THEN coords
                ELSE Fetch(wx, "weather")
    IN  IF body.outcome = "raised" THEN Return("Error fetching weather")
        ELSE body

\* get_current_weather(location, units)
get_current_weather(geo, wx, weather_code) ==
    LET coords == _get_coordinates(geo)
        code == IF weather_code = NoneNum THEN 0 ELSE weather_code
        body == IF coords.outcome = "raised" THEN coords
                ELSE Fetch(wx, [text |-> "Weather in",
                                conditions |->
                                  _get_weather_description(code).description])
    IN  WeatherExcept(body, "Failed to fetch weather data")

\* get_forecast(location, units); one day stands for the days of the answer
get_forecast(geo, wx, weather_code) ==
    LET coords == _get_coordinates(geo)
        body == IF coords.outcome = "raised" THEN coords
                ELSE IF wx = "ok" /\ weather_code = NoneNum
                THEN Raise("KeyError", "weather_code")
                ELSE Fetch(wx, [text |-> "7-Day Weather Forecast:",
                                conditions |->
                                  _get_weather_description(weather_code)])
    IN  WeatherExcept(body, "Failed to fetch forecast data")

\* get_weather_alerts(location)
get_weather_alerts == Return("Weather alerts are not currently available")

(* ---------------- the weather tools' calls ---------------- *)

LookupWeatherCode ==
    \E code \in WeatherCodes :
       /\ result' = [op |-> "_get_weather_description", code |-> code,
                     call |-> Return(_get_weather_description(code))]
       /\ UNCHANGED <<finVars, others>>

GetCurrentWeather ==
    \E geo \in GeoResponses, wx \in WeatherResponses, code \in ResponseCodes :
       /\ result' = [op |-> "get_current_weather", geo |-> geo, wx |-> wx,
                     weather_code |-> code,
                     call |-> get_current_weather(geo, wx, code)]
       /\ UNCHANGED <<finVars, others>>

GetForecast ==
    \E geo \in GeoResponses, wx \in WeatherResponses, code \in ResponseCodes :
       /\ result' = [op |-> "get_forecast", geo |-> geo, wx |-> wx,
                     weather_code |-> code,
                     call |-> get_forecast(geo, wx, code)]
       /\ UNCHANGED <<finVars, others>>

GetWeatherAlerts ==
    /\ result' = [op |-> "get_weather_alerts", call |-> get_weather_alerts]
    /\ UNCHANGED <<finVars, others>>

WeatherNext ==
    \/ LookupWeatherCode
    \/ GetCurrentWeather
    \/ GetForecast
    \/ GetWeatherAlerts

SpecWeather == Init /\ [][WeatherNext]_vars

WeatherTools == {"get_current_weather", "get_forecast", "get_weather_alerts"}

\* the external failures and the unknown location of a weather tool call
ExternalFailure(r) ==
    \/ r.geo \in {"no_results", "connection_error", "http_error",
                  "missing_key"}
    \/ /\ r.geo = "ok"
       /\ \/ r.wx \in {"connection_error", "http_error", "missing_key"}
          \/ r.op = "get_forecast" /\ r.wx = "ok" /\ r.weather_code = NoneNum

C18_WeatherCodeLookupTotal ==
    result.op = "_get_weather_description" =>
       /\ result.call.outcome = "returned"
       /\ result.code = 0 =>
             result.call.value = [main |-> "Clear", description |-> "clear sky"]
       /\ result.code \in DOMAIN weather_codes =>
             result.call.value = weather_codes[result.code]
       /\ result.code \notin DOMAIN weather_codes =>
             result.call.value =
                [main |-> "Unknown", description |-> "unknown conditions"]

\* a code outside the table was looked up
C18_Witness ==
    /\ result.op = "_get_weather_description"
    /\ result.code = 42
    /\ result.call.value.main = "Unknown"

(* ================================================================== *)
(* Agent wrappers and their interactive loops                          *)
(* (weather_agent.py, research_agent.py, finance_agent.py,             *)
(*  code_review_agent.py, support_agent.py, orchestrator.py)           *)
(* ================================================================== *)

\* frames of query on the Python stack before RecursionError
\* (sys.getrecursionlimit(), scaled down)
RecursionLimit == 3
\* session ids one run of a main loop can use up
MaxSessions == 3

Projects == {"weather", "research", "finance", "code_review", "support",
             "orchestrator"}
\* the wrappers whose main() has a read-eval-print loop
LoopProjects == Projects \ {"code_review"}
\* the wrappers that define reset() and whose loop handles clear / reset
ResetProjects == {"weather", "research", "finance"}

\* what one runner.run(...) of the hosted runtime can do
RunOutcomes == {"text", "no_text", "session_not_found", "value_error",
                "error"}

\* the prefix of the message the outermost except clause returns
ErrorPrefix(p) ==
    IF p = "orchestrator" THEN "Error executing task: "
    ELSE "I apologize, but I encountered an error: "

\* the body of the inner try once runner.run has ended otherwise than by
\* "Session not found": the text, the fallback, or the exception re-raised
RunBody(outcome) ==
    CASE outcome = "text" -> Return("response text")
      [] outcome = "no_text" -> Return("No response received.")
      [] outcome = "value_error" -> Raise("ValueError", "invalid argument")
      [] OTHER -> Raise("RuntimeError", "runtime failure")

\* an outer clause that catches ValueError only
query_except_value_error(p, body) ==
    IF body.outcome = "raised" /\ body.exception = "ValueError"
    THEN Return([text |-> ErrorPrefix(p), error |-> body.message])
    ELSE body

\* the outermost "except Exception as e" of query / execute_task
query_except(p, body) ==
    IF body.outcome = "raised"
    THEN Return([text |-> ErrorPrefix(p), error |-> body.message])
    ELSE body

Idle == [pc |-> "idle", depth |-> 0, runs |-> 0]

\* main(): the wrapper is constructed (its initial session created) and,
\* in interactive mode, the loop starts to read lines
Construct(p, interactive) ==
    /\ project = "none"
    /\ interactive => p \in LoopProjects
    /\ project' = p
    /\ session_id' = 1
    /\ sessions' = {1}
    /\ loop' = IF interactive THEN "running" ELSE "none"
    /\ UNCHANGED <<call, result, finVars, restVars, ticketVars, reportVars>>

\* query(user_message) is entered: the first frame of the call
StartQuery(message) ==
    /\ call.pc = "idle"
    /\ call' = [pc |-> "run", depth |-> 1, runs |-> 0, message |-> message]

\* query ends: every frame returns what the innermost frame returned
EndQuery(cause, body) ==
    /\ result' = [op |-> "query", cause |-> cause,
                  call |-> query_except(project, body)]
    /\ call' = [call EXCEPT !.pc = "idle"]

\* one runner.run(...) and the code up to the next external call
RunnerRun(outcome) ==
    /\ call.pc = "run"
    /\ IF outcome = "session_not_found"
       THEN /\ call' = [call EXCEPT !.pc = "recreate", !.runs = @ + 1]
            /\ UNCHANGED result
       ELSE /\ result' = [op |-> "query", cause |-> outcome,
                          call |-> query_except(project, RunBody(outcome))]
            /\ call' = [call EXCEPT !.pc = "idle", !.runs = @ + 1]
    /\ UNCHANGED <<project, loop, session_id, sessions>>
    /\ UNCHANGED <<finVars, restVars, ticketVars, reportVars>>

\* the "Session not found" handler: create_session_sync under the same id,
\* then "return self.query(user_message)"
RecreateSession(created) ==
    /\ call.pc = "recreate"
    /\ IF ~created
       THEN /\ EndQuery("recreate_failed",
                        Raise("RuntimeError", "create_session failed"))
            /\ UNCHANGED sessions
       ELSE /\ sessions' = sessions \cup {session_id}
            /\ IF call.depth >= RecursionLimit
               THEN EndQuery("recursion_limit",
                             Raise("RecursionError",
                                   "maximum recursion depth exceeded"))
               ELSE /\ call' = [call EXCEPT !.pc = "run", !.depth = @ + 1]
                    /\ UNCHANGED result
    /\ UNCHANGED <<project, loop, session_id>>
    /\ UNCHANGED <<finVars, restVars, ticketVars, reportVars>>

\* query called by code: review_code, the orchestrator's command-line task,
\* a test or a demo
CallQuery ==
    /\ project # "none"
    /\ loop = "none"
    /\ StartQuery(<<"t", "a", "s", "k">>)
    /\ UNCHANGED <<project, loop, session_id, sessions, result>>
    /\ UNCHANGED <<finVars, restVars, ticketVars, reportVars>>

(* ---------------- the interactive loops ---------------- *)

\* a line of input is the sequence of its characters
Whitespace == {" ", "\t"}

UpperToLower ==
    ( "A" :> "a" @@ "B" :> "b" @@ "C" :> "c" @@ "D" :> "d" @@ "E" :> "e"
   @@ "F" :> "f" @@ "G" :> "g" @@ "H" :> "h" @@ "I" :> "i" @@ "J" :> "j"
   @@ "K" :> "k" @@ "L" :> "l" @@ "M" :> "m" @@ "N" :> "n" @@ "O" :> "o"
   @@ "P" :> "p" @@ "Q" :> "q" @@ "R" :> "r" @@ "S" :> "s" @@ "T" :> "t"
   @@ "U" :> "u" @@ "V" :> "v" @@ "W" :> "w" @@ "X" :> "x" @@ "Y" :> "y"
   @@ "Z" :> "z" )

\* the line compared as typed
as_typed(s) == s

\* str.lower()
lower(s) ==
    [i \in DOMAIN s |-> IF s[i] \in DOMAIN UpperToLower
                        THEN UpperToLower[s[i]] ELSE s[i]]

RECURSIVE lstrip(_)
lstrip(s) ==
    IF s # <<>> /\ Head(s) \in Whitespace THEN lstrip(Tail(s)) ELSE s

RECURSIVE rstrip(_)
rstrip(s) ==
    IF s # <<>> /\ s[Len(s)] \in Whitespace
    THEN rstrip(SubSeq(s, 1, Len(s) - 1)) ELSE s

\* str.strip()
strip(s) == rstrip(lstrip(s))

\* str.startswith(prefix)
startswith(s, prefix) ==
    Len(s) >= Len(prefix) /\ SubSeq(s, 1, Len(prefix)) = prefix

QuitWords == { <<"q", "u", "i", "t">>, <<"e", "x", "i", "t">>,
               <<"b", "y", "e">> }
ResetWords == { <<"c", "l", "e", "a", "r">>, <<"r", "e", "s", "e", "t">> }
ReportPrefix == <<"r", "e", "p", "o", "r", "t", " ">>

\* the lines typed at the prompt
Lines ==
    { <<>>, <<" ", " ">>,
      <<"q", "u", "i", "t">>, <<"E", "X", "I", "T">>,
      <<" ", "B", "y", "e", " ">>,
      <<"c", "l", "e", "a", "r">>, <<"R", "e", "s", "e", "t", " ">>,
      <<"h", "i">>, <<"q", "u", "i", "t", " ", "i", "t">>,
      <<"r", "e", "p", "o", "r", "t", " ", "a", "i">> }

\* the prompt generate_report builds around the topic
ResearchPrompt(topic) == <<"Please conduct comprehensive research">> \o topic

\* a reset that switches the id and creates no session
reset_id_only(created) ==
    /\ session_id' = session_id + 1
    /\ sessions' = sessions

\* reset(): a new session id, then its session is created
reset(created) ==
    /\ session_id' = session_id + 1
    /\ sessions' = IF created THEN sessions \cup {session_id + 1}
                   ELSE sessions

\* one iteration of the while loop of main() up to the call of query:
\* the line is read, stripped and dispatched
MainLoop(line, created) ==
    LET user_input == strip(line) IN
    /\ loop = "running"
    /\ call.pc = "idle"
    /\ CASE user_input = <<>> ->
              /\ result' = [op |-> "input", effect |-> "continue"]
              /\ UNCHANGED <<loop, session_id, sessions, call>>
         [] user_input # <<>> /\ lower(user_input) \in QuitWords ->
              /\ loop' = "stopped"
              /\ result' = [op |-> "input", effect |-> "break"]
              /\ UNCHANGED <<session_id, sessions, call>>
         [] /\ user_input # <<>>
            /\ lower(user_input) \notin QuitWords
            /\ project \in ResetProjects
            /\ lower(user_input) \in ResetWords ->
              /\ session_id < MaxSessions
              /\ reset(created)
              /\ result' = [op |-> "input", effect |-> "reset"]
              /\ UNCHANGED <<loop, call>>
         [] OTHER ->
              /\ StartQuery(IF /\ project = "research"
                               /\ startswith(lower(user_input), ReportPrefix)
                            THEN ResearchPrompt(
                                   strip(SubSeq(user_input, 8,
                                                Len(user_input))))
                            ELSE user_input)
              /\ result' = [op |-> "input", effect |-> "query"]
              /\ UNCHANGED <<loop, session_id, sessions>>
    /\ UNCHANGED project
    /\ UNCHANGED <<finVars, restVars, ticketVars, reportVars>>

(* ---------------- the agent wrappers' steps ---------------- *)

ConstructAgent ==
    \E p \in Projects, interactive \in BOOLEAN : Construct(p, interactive)

ReadLine ==
    \E line \in Lines, created \in BOOLEAN : MainLoop(line, created)

Run == \E outcome \in RunOutcomes : RunnerRun(outcome)

Recreate == \E created \in BOOLEAN : RecreateSession(created)

AgentNext ==
    \/ ConstructAgent
    \/ ReadLine
    \/ CallQuery
    \/ Run
    \/ Recreate

SpecAgent == Init /\ [][AgentNext]_vars

\* C12 (as stated): for one call of query the runner is invoked at most
\* twice, even if every attempt reports "Session not found".
C12_RunnerInvokedAtMostTwice == call.runs <= 2

\* C13: query / execute_task never raises: a failure of the runtime, a
\* failure while the session is recreated and the exhausted recursion all
\* end as a returned error message, and a run without text returns
\* "No response received.".
C13_QueryNeverRaises ==
    result.op = "query" =>
       /\ result.call.outcome = "returned"
       /\ result.cause \in {"value_error", "error", "recreate_failed",
                            "recursion_limit"} =>
             /\ result.call.value.text \in
                   {"I apologize, but I encountered an error: ",
                    "Error executing task: "}
             /\ result.call.value.error # ""
       /\ result.cause = "no_text" =>
             result.call.value = "No response received."
       /\ result.cause = "text" => result.call.value = "response text"

\* the session could not be recreated and query returned the error message
C13_Witness ==
    /\ result.op = "query"
    /\ result.cause = "recreate_failed"
    /\ result.call.outcome = "returned"
    /\ call.runs = 1

\* the typed lines, by what the user means with them
BlankLines == { <<>>, <<" ", " ">> }
QuitLines == { <<"q", "u", "i", "t">>, <<"E", "X", "I", "T">>,
               <<" ", "B", "y", "e", " ">> }
ResetLines == { <<"c", "l", "e", "a", "r">>,
                <<"R", "e", "s", "e", "t", " ">> }
OtherLines == Lines \ (BlankLines \cup QuitLines \cup ResetLines)

\* the step neither ends the loop nor touches the session, and it enters
\* query exactly once
ForwardsOneQuery ==
    /\ call.pc = "idle"
    /\ call'.pc = "run" /\ call'.depth = 1 /\ call'.runs = 0
    /\ loop' = loop /\ session_id' = session_id /\ sessions' = sessions

\* the step does not enter query
SendsNoQuery == call' = call

\* C14 (as stated): in every project's loop quit / exit / bye in any case
\* ends the loop without a query, clear / reset starts a new session
\* without a query, and any other non-empty line is forwarded as exactly
\* one query.
C14_EveryLoopHandlesCommands ==
    [][\A line \in Lines, created \in BOOLEAN :
          MainLoop(line, created) =>
             /\ line \in QuitLines => loop' = "stopped" /\ SendsNoQuery
             /\ line \in ResetLines =>
                   session_id' # session_id /\ SendsNoQuery
             /\ line \in OtherLines => ForwardsOneQuery]_vars

\* C14 (amended): every loop ends on quit / exit / bye without a query,
\* skips blank lines and forwards any other line as exactly one query;
\* clear / reset switches to a new session id (creating its session)
\* without a query only in the weather, research and finance loops, while
\* the support and orchestrator loops forward clear / reset as a query.
C14_LoopCommands ==
    [][\A line \in Lines, created \in BOOLEAN :
          MainLoop(line, created) =>
             /\ line \in QuitLines => loop' = "stopped" /\ SendsNoQuery
             /\ line \in BlankLines =>
                   /\ SendsNoQuery
                   /\ loop' = loop /\ session_id' = session_id
             /\ line \in ResetLines /\
                project \in {"weather", "research", "finance"} =>
                   /\ session_id' \notin sessions \cup {session_id}
                   /\ created => session_id' \in sessions'
                   /\ loop' = loop
                   /\ SendsNoQuery
             /\ line \in ResetLines /\
                project \in {"support", "orchestrator"} => ForwardsOneQuery
             /\ line \in OtherLines => ForwardsOneQuery]_vars

\* a loop has handled clear / reset by switching to a new session
C14_Witness ==
    /\ result.op = "input"
    /\ result.effect = "reset"
    /\ session_id = 2
    /\ session_id \in sessions

(* ---------------- the finance tools' storage connection ---------------- *)

\* Each finance tool opens its connection with DatabaseManager() as the
\* first statement of its try block; the field connection of its result
\* says whether db.close() has run when the tool returns.

\* C15 (as stated): a finance tool that has opened a storage connection has
\* closed it when it returns, on every path: success, validation error
\* return and caught exception.
C15_ConnectionClosedOnReturn ==
    result.op \in {"tool_add_transaction", "manage_goal"} =>
       result.connection = "closed"

(* ================================================================== *)
(* Support tickets (project5-customer-support-agent/ticket_system.py)  *)
(* ================================================================== *)

\* A ticket is one file, TICKETS_DIR/<ticket_id>.json; tickets maps the
\* ids of the files that exist to their documents. The id is
\* "TKT-" + the clock reading to the second, modelled by the reading.

\* notes one ticket file can hold
MaxNotes == 2

TICKET_STATUSES == {"open", "in_progress", "resolved", "closed"}

\* clock readings, to the second
Seconds == {1, 2}
\* the status argument of update_ticket
StatusArgs == {NoneStr, "done", "in_progress", "resolved"}
\* the note argument of update_ticket
NoteArgs == {NoneStr, "", "called customer"}

\* os.path.exists(filepath)
Exists(ticket_id) == ticket_id \in DOMAIN tickets

\* create_ticket: the document written to <ticket_id>.json, mode 'w'
create_ticket(subject, priority, now) ==
    [id \in DOMAIN tickets \cup {now} |->
        IF id = now
        THEN [id |-> now, subject |-> subject, priority |-> priority,
              status |-> "open", created_at |-> now, updated_at |-> now,
              notes |-> <<>>]
        ELSE tickets[id]]

\* an update that stores whatever status it is given
update_ticket_any_status(ticket_id, status, note, now) ==
    [tickets EXCEPT ![ticket_id] =
        [@ EXCEPT !.status = IF StrTruthy(status) THEN status ELSE @,
                  !.notes = IF StrTruthy(note)
                            THEN Append(@, [timestamp |-> now, note |-> note])
                            ELSE @,
                  !.updated_at = now]]

\* an update that keeps only the latest note
update_ticket_last_note(ticket_id, status, note, now) ==
    [tickets EXCEPT ![ticket_id] =
        [@ EXCEPT !.status = IF StrTruthy(status) /\ status \in TICKET_STATUSES
                             THEN status ELSE @,
                  !.notes = IF StrTruthy(note)
                            THEN <<[timestamp |-> now, note |-> note]>>
                            ELSE @,
                  !.updated_at = now]]

\* update_ticket on an existing file: the document read, changed and
\* written back
update_ticket(ticket_id, status, note, now) ==
    [tickets EXCEPT ![ticket_id] =
        [@ EXCEPT !.status = IF StrTruthy(status) /\ status \in TICKET_STATUSES
                             THEN status ELSE @,
                  !.notes = IF StrTruthy(note)
                            THEN Append(@, [timestamp |-> now, note |-> note])
                            ELSE @,
                  !.updated_at = now]]

(* ---------------- the ticket tools' calls ---------------- *)

\* create_ticket, the whole call; written = FALSE: the file cannot be
\* written and the except clause returns the error string
ToolCreateTicket(subject, priority, now, written) ==
    /\ IF written
       THEN /\ tickets' = create_ticket(subject, priority, now)
            /\ result' = [op |-> "create_ticket", ticket_id |-> now,
                          value |-> "created successfully"]
       ELSE /\ tickets' = tickets
            /\ result' = [op |-> "create_ticket", ticket_id |-> now,
                          value |-> "Error creating ticket"]
    /\ UNCHANGED <<finVars, restVars, agentVars, reportVars>>

\* get_ticket, the whole call
ToolGetTicket(ticket_id) ==
    /\ result' = [op |-> "get_ticket", ticket_id |-> ticket_id,
                  value |-> IF Exists(ticket_id)
                            THEN [status |-> tickets[ticket_id].status,
                                  notes |-> tickets[ticket_id].notes]
                            ELSE "not found."]
    /\ UNCHANGED <<tickets, finVars, restVars, agentVars, reportVars>>

\* update_ticket, the whole call
ToolUpdateTicket(ticket_id, status, note, now) ==
    /\ IF ~Exists(ticket_id)
       THEN /\ tickets' = tickets
            /\ result' = [op |-> "update_ticket", ticket_id |-> ticket_id,
                          status |-> status, note |-> note,
                          value |-> "not found."]
       ELSE /\ StrTruthy(note) => Len(tickets[ticket_id].notes) < MaxNotes
            /\ tickets' = update_ticket(ticket_id, status, note, now)
            /\ result' = [op |-> "update_ticket", ticket_id |-> ticket_id,
                          status |-> status, note |-> note,
                          value |-> IF \/ StrTruthy(status) /\
                                          status \in TICKET_STATUSES
                                       \/ StrTruthy(note)
                                    THEN "updated" ELSE "No updates made"]
    /\ UNCHANGED <<finVars, restVars, agentVars, reportVars>>

CreateTicket ==
    \E now \in Seconds, written \in BOOLEAN :
       ToolCreateTicket("Login issue", "medium", now, written)

GetTicket == \E ticket_id \in Seconds : ToolGetTicket(ticket_id)

UpdateTicket ==
    \E ticket_id \in Seconds, status \in StatusArgs, note \in NoteArgs,
       now \in Seconds :
       ToolUpdateTicket(ticket_id, status, note, now)

TicketNext == CreateTicket \/ GetTicket \/ UpdateTicket

SpecTicket == Init /\ [][TicketNext]_vars

\* a step that is a call of update_ticket on an existing ticket file
IsUpdateOfExisting ==
    /\ result'.op = "update_ticket"
    /\ result'.ticket_id \in DOMAIN tickets
    /\ tickets' # tickets \/ result' # result

\* C16: a stored ticket's status is always one of open, in_progress,
\* resolved, closed; create_ticket stores "open", and an update_ticket whose
\* status is none of the four leaves the stored status unchanged.
C16_TicketStatus ==
    [][/\ \A id \in DOMAIN tickets' :
             tickets'[id].status \in
                {"open", "in_progress", "resolved", "closed"}
       /\ (result'.op = "create_ticket" /\
           result'.value = "created successfully")
          => tickets'[result'.ticket_id].status = "open"
       /\ (IsUpdateOfExisting /\
           result'.status \notin
              {"open", "in_progress", "resolved", "closed"})
          => tickets'[result'.ticket_id].status =
                tickets[result'.ticket_id].status]_vars

\* update_ticket with a status outside the four has left a resolved ticket
\* resolved
C16_Witness ==
    /\ result.op = "update_ticket"
    /\ result.status = "done"
    /\ result.value # "not found."
    /\ tickets[result.ticket_id].status = "resolved"

\* C17: across update_ticket calls a ticket's notes are append-only: the
\* earlier notes stay as a prefix, and a call with a non-empty note appends
\* exactly one note, at the end.
C17_NotesAppendOnly ==
    [][IsUpdateOfExisting =>
          LET before == tickets[result'.ticket_id].notes
              after == tickets'[result'.ticket_id].notes
              note == result'.note
          IN  /\ Len(after) >= Len(before)
              /\ SubSeq(after, 1, Len(before)) = before
              /\ note \notin {NoneStr, ""} =>
                    /\ Len(after) = Len(before) + 1
                    /\ after[Len(after)].note = note
              /\ note \in {NoneStr, ""} => after = before]_vars

\* a second note was appended behind the first
C17_Witness ==
    /\ result.op = "update_ticket"
    /\ result.note = "called customer"
    /\ result.value = "updated"
    /\ Len(tickets[result.ticket_id].notes) = 2

(* ================================================================== *)
(* Research reports (project2-research-assistant/document_generator.py) *)
(* ================================================================== *)

\* A report is the list of lines joined by "\n". A line is the f-string
\* that produced it: its format, the strings and the numbers put into it.
Line(fmt, args, nums) == [fmt |-> fmt, args |-> args, nums |-> nums]
Text(fmt) == Line(fmt, <<>>, <<>>)

\* clock readings in seconds; a day has two of them
Clock == 0 .. 3
\* the reading itself, to the second
to_the_second(now) == now
\* strftime('%B %d, %Y'): the day of the reading
Day(now) == now \div 2

Templates == {"structured", "summary", "detailed"}
CitationFormats == {"markdown", "apa", "mla", "plain"}

Topics == {"Test Topic"}
Summaries == {"This is a test summary of the research."}
FindingLists == { <<>>, <<"Finding number one", "Finding number two">> }
SourceLists ==
    { <<>>,
      << [title |-> "Test Article 1", link |-> "https://example.com/article1",
          source |-> ""],
         [title |-> "Test Article 2", link |-> "https://example.com/article2",
          source |-> "Example"] >> }
\* additional_sections: the items of the dict in their order; <<>> is None
SectionLists ==
    { <<>>, << [name |-> "Methodology", content |-> "Desk research"] >> }

\* str.upper() on the strings that go through it
upper(s) ==
    CASE s = "Test Topic" -> "TEST TOPIC"
      [] s = "Methodology" -> "METHODOLOGY"
      [] s = "Background" -> "BACKGROUND"
      [] s = "Limitations" -> "LIMITATIONS"
      [] OTHER -> s

RECURSIVE Flatten(_)
Flatten(blocks) ==
    IF blocks = <<>> THEN <<>> ELSE Head(blocks) \o Flatten(Tail(blocks))

\* _format_citations(sources)
_format_citations(citation_format, sources, now) ==
    Flatten([i \in DOMAIN sources |->
       LET title == sources[i].title
           url == sources[i].link
       IN  CASE citation_format = "markdown" ->
                  <<Line("{i}. [{title}]({url})", <<title, url>>, <<i>>)>> \o
                  (IF sources[i].source # ""
                   THEN <<Line("   Source: {source_name}",
                               <<sources[i].source>>, <<>>)>>
                   ELSE <<>>)
             [] citation_format = "apa" ->
                  <<Line("{i}. {title}. ({date}). Retrieved from {url}",
                         <<title, url>>, <<i, Day(now)>>)>>
             [] citation_format = "mla" ->
                  <<Line("{i}. \"{title}.\" Web. {date}. <{url}>",
                         <<title, url>>, <<i, Day(now)>>)>>
             [] OTHER ->
                  <<Line("{i}. {title} - {url}", <<title, url>>, <<i>>)>>])

\* a findings section written even when there is no finding
FindingsSection_unconditional(findings) ==
    <<Line("## {}\n", <<"Key Findings">>, <<>>)>>
    \o [i \in DOMAIN findings |->
          Line("{i}. {finding}", <<findings[i]>>, <<i>>)]
    \o <<Text("\n")>>

\* the "if findings:" block of _generate_structured_report
FindingsSection(findings) ==
    IF findings # <<>>
    THEN <<Line("## {}\n", <<"Key Findings">>, <<>>)>>
         \o [i \in DOMAIN findings |->
               Line("{i}. {finding}", <<findings[i]>>, <<i>>)]
         \o <<Text("\n")>>
    ELSE <<>>

\* _generate_structured_report
_generate_structured_report(g, topic, summary, findings, sources, additional_sections, now) ==
    << Line("# Research Report: {topic}", <<topic>>, <<>>),
       Line("\n**Generated:** {now:%Y-%m-%d %H:%M:%S}", <<>>, <<now>>),
       Line("**Sources:** {len(sources)}\n", <<>>, <<Len(sources)>>),
       Text("---\n"),
       Line("## {}\n", <<"Executive Summary">>, <<>>),
       Line("{summary}", <<summary>>, <<>>),
       Text("\n") >>
    \o FindingsSection(findings)
    \o Flatten([k \in DOMAIN additional_sections |->
          << Line("## {}\n", <<additional_sections[k].name>>, <<>>),
             Line("{content}", <<additional_sections[k].content>>, <<>>),
             Text("\n") >>])
    \o (IF g.include_citations /\ sources # <<>>
        THEN <<Line("## {}\n", <<"Sources and References">>, <<>>)>>
             \o _format_citations(g.citation_format, sources, now)
        ELSE <<>>)

\* _generate_summary_report
_generate_summary_report(g, topic, summary, findings, sources) ==
    << Line("# {topic}\n", <<topic>>, <<>>),
       Line("{summary}", <<summary>>, <<>>),
       Text("\n**Key Points:**\n") >>
    \o [i \in DOMAIN findings |-> Line("- {finding}", <<findings[i]>>, <<>>)]
    \o (IF g.include_citations /\ sources # <<>>
        THEN <<Text("\n**Sources:**")>>
             \o [i \in DOMAIN sources |->
                   Line("- {title}: {link}",
                        <<sources[i].title, sources[i].link>>, <<>>)]
        ELSE <<>>)

\* a References section numbered as the last of the sections before it
ReferencesNumber_last(additional_sections) == Len(additional_sections) + 2

\* the number of the References section of the detailed report
ReferencesNumber(additional_sections) ==
    IF additional_sections # <<>> THEN Len(additional_sections) + 3 ELSE 3

\* _generate_detailed_report
_generate_detailed_report(g, topic, summary, findings, sources, additional_sections, now) ==
    << Text("=" ), Line("{topic.upper()}", <<upper(topic)>>, <<>>),
       Text("Research Report"),
       Line("Generated: {now:%B %d, %Y}", <<>>, <<Day(now)>>),
       Text("="), Text("\n"),
       Text("TABLE OF CONTENTS"), Text("-"),
       Text("1. Executive Summary"), Text("2. Key Findings") >>
    \o [k \in DOMAIN additional_sections |->
          Line("{i}. {section}", <<additional_sections[k].name>>, <<k + 2>>)]
    \o << Line("{n}. References", <<>>,
               <<ReferencesNumber(additional_sections)>>),
          Text("\n=\n"),
          Text("1. EXECUTIVE SUMMARY"), Text("-"),
          Line("{summary}", <<summary>>, <<>>), Text("\n=\n"),
          Text("2. KEY FINDINGS"), Text("-") >>
    \o [i \in DOMAIN findings |->
          Line("\n{i}. {finding}", <<findings[i]>>, <<i>>)]
    \o <<Text("\n=\n")>>
    \o Flatten([k \in DOMAIN additional_sections |->
          << Line("{i}. {section_name.upper()}",
                  <<upper(additional_sections[k].name)>>, <<k + 2>>),
             Text("-"),
             Line("{content}", <<additional_sections[k].content>>, <<>>),
             Text("\n=\n") >>])
    \o << Line("{section_num}. REFERENCES", <<>>,
               <<ReferencesNumber(additional_sections)>>),
          Text("-") >>
    \o _format_citations(g.citation_format, sources, now)

\* DocumentGenerator.generate_report: the dispatch on self.template
generate_report(g, topic, summary, findings, sources, additional_sections, now) ==
    IF g.template = "structured"
    THEN _generate_structured_report(g, topic, summary, findings, sources,
                                     additional_sections, now)
    ELSE IF g.template = "summary"
    THEN _generate_summary_report(g, topic, summary, findings, sources)
    ELSE _generate_detailed_report(g, topic, summary, findings, sources,
                                   additional_sections, now)

(* ---------------- the document generator's calls ---------------- *)

\* DocumentGenerator(): the settings of config.py become its attributes
NewDocumentGenerator(template, include_citations, citation_format) ==
    /\ generator.template = "none"
    /\ generator' = [template |-> template,
                     include_citations |-> include_citations,
                     citation_format |-> citation_format]
    /\ UNCHANGED <<last_report, result, finVars, restVars, ticketVars, agentVars>>

\* generate_report, the whole call; last_report keeps the call before it
DocGenerateReport(topic, summary, findings, sources, additional_sections, now) ==
    /\ generator.template # "none"
    /\ result' = [op |-> "generate_report",
                  topic |-> topic, summary |-> summary,
                  findings |-> findings, sources |-> sources,
                  additional_sections |-> additional_sections,
                  now |-> now,
                  value |-> generate_report(generator, topic, summary,
                                            findings, sources,
                                            additional_sections, now)]
    /\ last_report' = IF result.op = "generate_report" THEN result
                      ELSE last_report
    /\ UNCHANGED <<generator, finVars, restVars, ticketVars, agentVars>>

ConstructGenerator ==
    \E template \in Templates, include_citations \in BOOLEAN,
       citation_format \in CitationFormats :
       NewDocumentGenerator(template, include_citations, citation_format)

GenerateReport ==
    \E topic \in Topics, summary \in Summaries, findings \in FindingLists,
       sources \in SourceLists, additional_sections \in SectionLists,
       now \in Clock :
       DocGenerateReport(topic, summary, findings, sources,
                         additional_sections, now)

ReportNext == ConstructGenerator \/ GenerateReport

SpecReport == Init /\ [][ReportNext]_vars

\* the report has a line made of the string s
Contains(text, s) ==
    \E i \in DOMAIN text : \E j \in DOMAIN text[i].args : text[i].args[j] = s

\* the report has a "## <heading>" section header
HasSection(text, heading) ==
    \E i \in DOMAIN text :
       text[i].fmt = "## {}\n" /\ text[i].args = <<heading>>

SameInputs ==
    /\ last_report.op = "generate_report"
    /\ result.op = "generate_report"
    /\ last_report.topic = result.topic
    /\ last_report.summary = result.summary
    /\ last_report.findings = result.findings
    /\ last_report.sources = result.sources
    /\ last_report.additional_sections = result.additional_sections

\* the two readings fall on the same day
SameDay(a, b) == {a, b} \subseteq {0, 1} \/ {a, b} \subseteq {2, 3}

\* C20 (as stated): two calls with the same topic, summary, findings,
\* sources and extra sections produce the same text, whatever the wall
\* clock reads at each call.
C20_SameInputsSameText ==
    SameInputs => result.value = last_report.value

\* C20 (amended): the text depends on the inputs, the generator's settings
\* and the clock: for the same inputs the summary template always gives the
\* same text, the structured template exactly when the two calls read the
\* same second, and the detailed template exactly when they read the same
\* day.
C20_TextDependsOnClock ==
    SameInputs =>
       /\ generator.template = "summary" =>
             result.value = last_report.value
       /\ generator.template = "structured" =>
             (result.value = last_report.value
                <=> result.now = last_report.now)
       /\ generator.template = "detailed" =>
             (result.value = last_report.value
                <=> SameDay(result.now, last_report.now))

\* the same structured report asked for at two different seconds
C20_Witness ==
    /\ SameInputs
    /\ generator.template = "structured"
    /\ result.now # last_report.now
    /\ result.value # last_report.value

(* ================================================================== *)
(* Web search (project2-research-assistant/search_tools.py)           *)
(* ================================================================== *)

\* GOOGLE_SEARCH_API_KEY / GOOGLE_SEARCH_ENGINE_ID as read from the environment
ApiKeys == {NoneStr, "", "key"}
EngineIds == {NoneStr, "cx"}
\* the num_results argument
NumResults == {0, 1, 3, 6, 11}
\* how the Custom Search request ends
GoogleResponses == {"ok", "connection_error", "http_error"}
\* how the DuckDuckGo request and the parsing of its page end
DuckResponses == {"ok", "connection_error", "http_error", "parse_error"}
\* the result blocks on the DuckDuckGo page
DuckBlocks == {0, 2, 7, 12}

Min(a, b) == IF a <= b THEN a ELSE b

\* n results of one backend
Results(backend, n) == [i \in 1 .. n |-> [source |-> backend, index |-> i]]

\* search_google_custom: items is what the API answers to "num"
search_google_custom(api_key, engine_id, response, items, num_results) ==
    IF ~StrTruthy(api_key) \/ ~StrTruthy(engine_id)
    THEN Raise("SearchError", "credentials not configured")
    ELSE LET body == Fetch(response, Results("google", items))
         IN  IF body.outcome = "raised" /\ body.exception \in RequestException
             THEN Raise("SearchError", "Search API error")
             ELSE body

\* a scraper that keeps every result block of the page
search_duckduckgo_untruncated(bs4_available, response, blocks, num_results) ==
    IF ~bs4_available
    THEN Raise("SearchError", "BeautifulSoup4 not installed")
    ELSE IF response # "ok"
    THEN Raise("SearchError", "DuckDuckGo search error")
    ELSE Return(Results("duckduckgo", blocks))

\* search_duckduckgo: every exception becomes a SearchError
search_duckduckgo(bs4_available, response, blocks, num_results) ==
    IF ~bs4_available
    THEN Raise("SearchError", "BeautifulSoup4 not installed")
    ELSE IF response # "ok"
    THEN Raise("SearchError", "DuckDuckGo search error")
    ELSE Return(Results("duckduckgo", Min(blocks, num_results)))

\* _get_simulated_search_results
_get_simulated_search_results(num_results) ==
    Results("example.com", Min(num_results, 5))

\* search_web: the value returned (or the exception) and the backends called
search_web(api_key, engine_id, bs4_available, google, items, duck, blocks, num_results) ==
    LET use_google == StrTruthy(api_key) /\ StrTruthy(engine_id)
        g == search_google_custom(api_key, engine_id, google, items, num_results)
        d == search_duckduckgo(bs4_available, duck, blocks, num_results)
        g_done == use_google /\ ~(g.outcome = "raised" /\ g.exception = "SearchError")
        d_done == bs4_available /\ ~(d.outcome = "raised" /\ d.exception = "SearchError")
    IN  IF g_done THEN [call |-> g, tried |-> <<"google">>]
        ELSE IF d_done
        THEN [call |-> d,
              tried |-> (IF use_google THEN <<"google">> ELSE <<>>)
                        \o <<"duckduckgo">>]
        ELSE [call |-> Return(_get_simulated_search_results(num_results)),
              tried |-> (IF use_google THEN <<"google">> ELSE <<>>)
                        \o (IF bs4_available THEN <<"duckduckgo">> ELSE <<>>)
                        \o <<"simulated">>]

\* search_web, the whole call
SearchWeb ==
    \E api_key \in ApiKeys, engine_id \in EngineIds, bs4_available \in BOOLEAN,
       google \in GoogleResponses, duck \in DuckResponses,
       blocks \in DuckBlocks, num_results \in NumResults :
       \E items \in 0 .. Min(num_results, 10) :
          /\ result' = [op |-> "search_web", api_key |-> api_key,
                        engine_id |-> engine_id, bs4_available |-> bs4_available,
                        google |-> google, duck |-> duck,
                        num_results |-> num_results]
                       @@ search_web(api_key, engine_id, bs4_available, google,
                                     items, duck, blocks, num_results)
          /\ UNCHANGED <<finVars, others>>

LowerLetters == { UpperToLower[c] : c \in DOMAIN UpperToLower }
Letters == DOMAIN UpperToLower \cup LowerLetters
Digits == {"0", "1", "2", "3", "4", "5", "6", "7", "8", "9"}
\* urllib.parse.scheme_chars
SchemeChars == Letters \cup Digits \cup {"+", "-", "."}

\* the first position of a character of cs in s, Len(s) + 1 if there is none
RECURSIVE FindFirst(_, _, _)
FindFirst(s, cs, i) ==
    IF i > Len(s) \/ s[i] \in cs THEN i ELSE FindFirst(s, cs, i + 1)

\* urlparse(url): the scheme and the netloc of the result; an unbalanced
\* bracket in the netloc is a ValueError ("Invalid IPv6 URL")
urlparse(url) ==
    LET i == FindFirst(url, {":"}, 1)
        has_scheme == /\ i > 1 /\ i <= Len(url)
                      /\ url[1] \in Letters
                      /\ \A k \in 1 .. (i - 1) : url[k] \in SchemeChars
        scheme == IF has_scheme THEN lower(SubSeq(url, 1, i - 1)) ELSE <<>>
        rest == IF has_scheme THEN SubSeq(url, i + 1, Len(url)) ELSE url
        has_netloc == Len(rest) >= 2 /\ SubSeq(rest, 1, 2) = <<"/", "/">>
        after == SubSeq(rest, 3, Len(rest))
        netloc == IF has_netloc
                  THEN SubSeq(after, 1, FindFirst(after, {"/", "?", "#"}, 1) - 1)
                  ELSE <<>>
        chars == { netloc[k] : k \in DOMAIN netloc }
    IN  IF ("[" \in chars) # ("]" \in chars)
        THEN Raise("ValueError", "Invalid IPv6 URL")
        ELSE Return([scheme |-> scheme, netloc |-> netloc])

\* a validation that is content with a scheme or a netloc
validate_url_any(url) ==
    LET parsed == urlparse(url)
    IN  IF parsed.outcome = "raised" THEN Return(FALSE)
        ELSE Return(parsed.value.scheme # <<>> \/ parsed.value.netloc # <<>>)

\* validate_url: all([result.scheme, result.netloc]) under a bare except
validate_url(url) ==
    LET parsed == urlparse(url)
    IN  IF parsed.outcome = "raised" THEN Return(FALSE)
        ELSE Return(parsed.value.scheme # <<>> /\ parsed.value.netloc # <<>>)

HttpsExample ==
    <<"h", "t", "t", "p", "s", ":", "/", "/", "w", "w", "w", ".",
      "e", "x", "a", "m", "p", "l", "e", ".", "c", "o", "m">>
HttpExamplePath ==
    <<"h", "t", "t", "p", ":", "/", "/", "e", "x", "a", "m", "p", "l", "e",
      ".", "c", "o", "m", "/", "p", "a", "t", "h">>
NotAUrl == <<"n", "o", "t", " ", "a", " ", "u", "r", "l">>

\* URLs with a scheme and a network location
WellFormedUrls ==
    { HttpsExample, HttpExamplePath,
      <<"F", "T", "P", ":", "/", "/", "h", "?", "q">>,
      <<"h", "t", "t", "p", ":", "/", "/", "[", ":", ":", "1", "]">> }
\* strings that lack the scheme, the network location or both, or do not parse
MalformedUrls ==
    { <<>>, NotAUrl,
      <<"h", "t", "t", "p", ":", "/", "/">>,
      <<"h", "t", "t", "p", ":", "/", "/", "/", "p">>,
      <<"/", "/", "e", "x", "a", "m", "p", "l", "e", ".", "c", "o", "m">>,
      <<"m", "a", "i", "l", "t", "o", ":", "a", "@", "b", ".", "c">>,
      <<"1", "h", ":", "/", "/", "h">>,
      <<"w", "w", "w", ".", "e", "x", "a", "m", "p", "l", "e", ".", "c", "o", "m">>,
      <<"h", "t", "t", "p", ":", "/", "/", "[", ":", ":", "1">> }

\* validate_url, the whole call
ValidateUrl ==
    \E url \in WellFormedUrls \cup MalformedUrls :
       /\ result' = [op |-> "validate_url", url |-> url,
                     call |-> validate_url(url)]
       /\ UNCHANGED <<finVars, others>>

SearchNext == SearchWeb \/ ValidateUrl

SpecSearch == Init /\ [][SearchNext]_vars

\* C24: validate_url returns true exactly for a URL with a non-empty scheme
\* and a non-empty network location: it accepts "https://www.example.com" and
\* "http://example.com/path", rejects "" and "not a url", and never raises.
C24_ValidateUrl ==
    result.op = "validate_url" =>
       /\ result.call.outcome = "returned"
       /\ result.call.value = (result.url \in WellFormedUrls)
       /\ result.url \in {HttpsExample, HttpExamplePath} => result.call.value
       /\ result.url \in {<<>>, NotAUrl} => ~result.call.value

\* a URL with a scheme but no network location was rejected
C24_Witness ==
    /\ result.op = "validate_url"
    /\ result.url = <<"m", "a", "i", "l", "t", "o", ":", "a", "@", "b", ".", "c">>
    /\ result.call = Return(FALSE)

(***************************************************************************)
(* The research agent's context: what its tools save while the hosted      *)
(* runtime runs a query, and what generate_report and reset do with it.    *)
(***************************************************************************)

\* findings kept in one context
MaxFindings == 2

\* what the model's save_finding_tool calls carry
FindingArgs ==
    { [finding |-> "Finding number one", source |-> ""],
      [finding |-> "Finding number two",
       source |-> "https://example.com/article1"] }
\* what search_web answers to the model's search_web_tool calls
SearchAnswers == SourceLists

\* a context that keeps what was saved and takes the topic
kept_context(topic) == [research_context EXCEPT !.current_topic = topic]

\* the dict generate_report and reset assign to self.research_context
cleared_context(topic) ==
    [sources |-> <<>>, findings |-> <<>>, current_topic |-> topic]

\* "if result not in sources: sources.append(result)" over the results
RECURSIVE AppendNew(_, _)
AppendNew(sources, results) ==
    IF results = <<>> THEN sources
    ELSE AppendNew(IF \E i \in DOMAIN sources : sources[i] = Head(results)
                   THEN sources ELSE Append(sources, Head(results)),
                   Tail(results))

\* ResearchAgent(): the empty context, the initial session, the generator
\* with the settings of config.py
NewResearchAgent ==
    /\ project = "none"
    /\ generator.template = "none"
    /\ project' = "research"
    /\ session_id' = 1
    /\ sessions' = {1}
    /\ generator' = [template |-> "structured", include_citations |-> TRUE,
                     citation_format |-> "markdown"]
    /\ research_context' = cleared_context(NoneStr)
    /\ research' = [pc |-> "idle", saved |-> <<>>, found |-> <<>>]
    /\ result' = [op |-> "ResearchAgent"]
    /\ UNCHANGED <<loop, call, last_report, finVars, connVars, ticketVars>>

\* generate_report up to the moment the runtime starts on the research
\* prompt: the context is replaced
EnterGenerateReport(topic) ==
    /\ research.pc = "idle"
    /\ research_context' = cleared_context(topic)
    /\ research' = [pc |-> "report", saved |-> <<>>, found |-> <<>>]
    /\ result' = [op |-> "entered", call |-> "generate_report"]
    /\ UNCHANGED <<finVars, connVars, ticketVars, agentVars, reportVars>>

\* query called directly: the context is left as it is
EnterQuery ==
    /\ research.pc = "idle"
    /\ research' = [pc |-> "query", saved |-> <<>>, found |-> <<>>]
    /\ result' = [op |-> "entered", call |-> "query"]
    /\ UNCHANGED <<research_context, finVars, connVars, ticketVars, agentVars,
                   reportVars>>

\* the runtime calls save_finding_tool; research.saved is the history of
\* the calls of the current run
save_finding_tool(args) ==
    /\ research.pc \in {"report", "query"}
    /\ Len(research_context.findings) < MaxFindings
    /\ research_context' =
          [research_context EXCEPT !.findings = Append(@, args)]
    /\ research' = [research EXCEPT !.saved = Append(@, args)]
    /\ result' = [op |-> "save_finding_tool",
                  total |-> Len(research_context.findings) + 1]
    /\ UNCHANGED <<finVars, connVars, ticketVars, agentVars, reportVars>>

\* the runtime calls search_web_tool; research.found is the history of the
\* results of the current run
search_web_tool(results) ==
    /\ research.pc \in {"report", "query"}
    /\ research_context' =
          [research_context EXCEPT !.sources = AppendNew(@, results)]
    /\ research' = [research EXCEPT !.found = AppendNew(@, results)]
    /\ result' = [op |-> "search_web_tool", found |-> Len(results)]
    /\ UNCHANGED <<finVars, connVars, ticketVars, agentVars, reportVars>>

\* the query returns; generate_report hands what the context holds to the
\* document generator
EndResearchRun(outcome, now) ==
    LET body == query_except(project, RunBody(outcome)).value
        \* the apology is one string: the prefix followed by the message
        response == IF RunBody(outcome).outcome = "raised" THEN body.text
                    ELSE body
        findings_list ==
           [i \in DOMAIN research_context.findings |->
               research_context.findings[i].finding]
    IN
    /\ research.pc \in {"report", "query"}
    /\ research' = [research EXCEPT !.pc = "idle"]
    /\ result' =
          IF research.pc = "query"
          THEN [op |-> "query", call |-> Return(response)]
          ELSE [op |-> "research_report",
                topic |-> research_context.current_topic,
                findings |-> findings_list,
                sources |-> research_context.sources,
                saved |-> research.saved,
                found |-> research.found,
                value |-> generate_report(generator,
                             research_context.current_topic, response,
                             findings_list, research_context.sources,
                             <<>>, now)]
    /\ UNCHANGED <<research_context, finVars, connVars, ticketVars, agentVars,
                   reportVars>>

\* ResearchAgent.reset: the context is cleared, then the new session
ResearchReset(created) ==
    /\ research.pc = "idle"
    /\ session_id < MaxSessions
    /\ research_context' = cleared_context(NoneStr)
    /\ reset(created)
    /\ result' = [op |-> "reset", created |-> created]
    /\ UNCHANGED <<research, project, loop, call, finVars, connVars, ticketVars,
                   reportVars>>

ResearchNext ==
    \/ NewResearchAgent
    \/ \E topic \in Topics : EnterGenerateReport(topic)
    \/ EnterQuery
    \/ \E args \in FindingArgs : save_finding_tool(args)
    \/ \E results \in SearchAnswers : search_web_tool(results)
    \/ \E outcome \in RunOutcomes \ {"session_not_found"}, now \in Clock :
          EndResearchRun(outcome, now)
    \/ \E created \in BOOLEAN : ResearchReset(created)

SpecResearch == Init /\ [][ResearchNext]_vars

\* C22: after reset, and when generate_report starts its research, the
\* context holds no findings and no sources, so the findings and sources a
\* report is built from are exactly the ones its own run gathered.
C22_ReportUsesOwnRun ==
    /\ result.op = "reset" =>
          research_context.findings = <<>> /\ research_context.sources = <<>>
    /\ (result.op = "entered" /\ result.call = "generate_report") =>
          research_context.findings = <<>> /\ research_context.sources = <<>>
    /\ result.op = "research_report" =>
          /\ result.findings =
                [i \in DOMAIN result.saved |-> result.saved[i].finding]
          /\ result.sources = result.found
          /\ \A args \in FindingArgs :
                Contains(result.value, args.finding) =>
                   \E i \in DOMAIN result.saved : result.saved[i] = args

\* a report built from the one finding of its own run although the context
\* held another finding before
C22_Witness ==
    /\ result.op = "research_report"
    /\ result.findings = <<"Finding number two">>
    /\ Len(result.sources) = 2
    /\ Contains(result.value, "Finding number two")
    /\ ~Contains(result.value, "Finding number one")

(***************************************************************************)
(* Updates of a goal or a ticket that does not exist.                      *)
(***************************************************************************)

\* a goal is created through the database layer
NotFoundCreateGoal ==
    /\ Len(goals) < MaxGoals
    /\ DbCreateGoal("Emergency Fund", 2, 0, NoneDate)

\* a ticket is created
NotFoundCreateTicket ==
    \E now \in Seconds : ToolCreateTicket("Login issue", "medium", now, TRUE)

\* update_ticket on an id that exists or not, with or without a new status
NotFoundUpdateTicket ==
    \E ticket_id \in Seconds, status \in {NoneStr, "resolved"},
       now \in Seconds :
       ToolUpdateTicket(ticket_id, status, NoneStr, now)

NotFoundNext ==
    \/ NotFoundCreateGoal
    \/ ManageGoalUpdate
    \/ UpdateGoalProgress
    \/ NotFoundCreateTicket
    \/ NotFoundUpdateTicket

SpecNotFound == Init /\ [][NotFoundNext]_vars

\* the step is manage_goal(action="update") reaching the database with an
\* id no goal has
IsGoalUpdateOfMissing ==
    /\ result'.op = "manage_goal"
    /\ result'.action = "update"
    /\ result'.connection = "closed"
    /\ result'.goal_id \notin 1..Len(goals)

\* the step is DatabaseManager.update_goal_progress with an id no goal has
IsDbUpdateOfMissing ==
    /\ result'.op = "update_goal_progress"
    /\ result'.goal_id \notin 1..Len(goals)

\* the step is update_ticket with an id no ticket has
IsTicketUpdateOfMissing ==
    /\ result'.op = "update_ticket"
    /\ ~Exists(result'.ticket_id)

C23_TicketWitness ==
    /\ Len(goals) = 1
    /\ Exists(1) /\ ~Exists(2)
    /\ result.op = "update_ticket"
    /\ result.ticket_id = 2
    /\ result.value = "not found."

(***************************************************************************)
(* The detailed report's table of contents.                                *)
(***************************************************************************)

SectionNames == {"Methodology", "Background", "Limitations"}

\* additional_sections is a dict: its keys are distinct
TocSectionLists ==
    { <<>> }
    \cup { <<[name |-> a, content |-> "Desk research"]>> : a \in SectionNames }
    \cup { <<[name |-> p[1], content |-> "Desk research"],
             [name |-> p[2], content |-> "Desk research"]>> :
           p \in { q \in SectionNames \X SectionNames : q[1] # q[2] } }
    \cup { <<[name |-> "Limitations", content |-> ""],
             [name |-> "Background", content |-> "Desk research"],
             [name |-> "Methodology", content |-> "Desk research"]>> }

TocGenerateReport ==
    \E topic \in Topics, summary \in Summaries, findings \in FindingLists,
       additional_sections \in TocSectionLists :
       DocGenerateReport(topic, summary, findings, <<>>, additional_sections, 0)

TocNext == ConstructGenerator \/ TocGenerateReport

SpecToc == Init /\ [][TocNext]_vars

IsTocLine(l) ==
    l.fmt \in {"1. Executive Summary", "2. Key Findings", "{i}. {section}",
               "{n}. References"}

IsHeaderLine(l) ==
    l.fmt \in {"1. EXECUTIVE SUMMARY", "2. KEY FINDINGS",
               "{i}. {section_name.upper()}", "{section_num}. REFERENCES"}

\* the number a table-of-contents line or a section header starts with
SectionNumber(l) ==
    CASE l.fmt \in {"1. Executive Summary", "1. EXECUTIVE SUMMARY"} -> 1
      [] l.fmt \in {"2. Key Findings", "2. KEY FINDINGS"} -> 2
      [] OTHER -> l.nums[1]

\* C25: in the detailed report with n additional sections the table of
\* contents lists 1 Executive Summary, 2 Key Findings, 3..n+2 the additional
\* sections in their order and n+3 References, and every section header of
\* the body carries the number of its entry, none skipped or repeated.
C25_DetailedNumbering ==
    (result.op = "generate_report" /\ generator.template = "detailed") =>
       LET n == Len(result.additional_sections)
           toc == SelectSeq(result.value, IsTocLine)
           headers == SelectSeq(result.value, IsHeaderLine)
       IN  /\ Len(toc) = n + 3
           /\ Len(headers) = n + 3
           /\ \A k \in 1 .. (n + 3) :
                 SectionNumber(toc[k]) = k /\ SectionNumber(headers[k]) = k
           /\ toc[1].fmt = "1. Executive Summary"
           /\ headers[1].fmt = "1. EXECUTIVE SUMMARY"
           /\ toc[2].fmt = "2. Key Findings"
           /\ headers[2].fmt = "2. KEY FINDINGS"
           /\ \A k \in 1 .. n :
                 /\ toc[k + 2].fmt = "{i}. {section}"
                 /\ toc[k + 2].args = <<result.additional_sections[k].name>>
                 /\ headers[k + 2].fmt = "{i}. {section_name.upper()}"
                 /\ headers[k + 2].args =
                       <<upper(result.additional_sections[k].name)>>
           /\ toc[n + 3].fmt = "{n}. References"
           /\ headers[n + 3].fmt = "{section_num}. REFERENCES"

\* a detailed report with three additional sections and findings
C25_Witness ==
    /\ result.op = "generate_report"
    /\ generator.template = "detailed"
    /\ Len(result.additional_sections) = 3
    /\ result.findings # <<>>
    /\ SectionNumber(SelectSeq(result.value, IsHeaderLine)[6]) = 6

(***************************************************************************)
(* manage_budget: the create and the view actions of the finance tool.     *)
(***************************************************************************)

\* dates of the model's calendar: a month has two of them, month 1 is
\* {1, 2}, month 2 is {3, 4}
MonthOf(d) == (d + 1) \div 2
\* datetime(now.year, now.month, 1)
MonthStart(now) == 2 * MonthOf(now) - 1

\* the dates transactions carry and the moments manage_budget is called at
ViewDates == {2, 3, 4}
ViewMoments == {3, 4}

\* a check of the amount alone
create_args_amount_only(category, amount) == ~NumTruthy(amount)

\* `not category or not amount`
create_args_missing(category, amount) ==
    ~StrTruthy(category) \/ ~NumTruthy(amount)

\* manage_budget(action="create", ...): the early return leaves the
\* connection open
ManageBudgetCreate(category, amount, now) ==
    IF create_args_missing(category, amount)
    THEN /\ result' = [op |-> "manage_budget", action |-> "create",
                       category |-> category, amount |-> amount,
                       value |-> "Error: Category and amount required for creating budget",
                       connection |-> "open"]
         /\ UNCHANGED <<transactions, budgets, goals, others>>
    ELSE /\ budgets' = create_budget(category, amount, "monthly", now)
         /\ result' = [op |-> "manage_budget", action |-> "create",
                       category |-> category, amount |-> amount,
                       value |-> "Created budget",
                       connection |-> "closed"]
         /\ UNCHANGED <<transactions, goals, others>>

\* the lines of the view for one budget
BudgetStatus(budget, spending) ==
    LET spent == DictGet(spending, budget.category, 0)
    IN  [category |-> budget.category, amount |-> budget.amount,
         spent |-> spent, remaining |-> budget.amount - spent]

\* manage_budget(action="view"): the open budgets against the spending from
\* the first of the month to now
ManageBudgetView(now) ==
    \E spending \in get_spending_by_category(MonthStart(now), now) :
       LET open == get_budgets(TRUE) IN
       /\ result' = [op |-> "manage_budget", action |-> "view",
                     now |-> now,
                     value |-> IF open = <<>>
                               THEN <<"No budgets set yet. Create a budget to start tracking!">>
                               ELSE [i \in DOMAIN open |->
                                       BudgetStatus(open[i], spending)],
                     connection |-> "closed"]
       /\ UNCHANGED <<transactions, budgets, goals, others>>

ViewAddTransaction ==
    /\ Len(transactions) < MaxTxns
    /\ \E category \in Categories, transaction_type \in TransactionType,
          date \in ViewDates :
          DbAddTransaction(1, category, "Test", transaction_type, date, date)

ViewCreateBudget ==
    /\ Len(budgets) < MaxBudgets
    /\ \E category \in Categories \cup {NoneStr, ""},
          amount \in {2, 0, NoneNum} :
          ManageBudgetCreate(category, amount, 3)

ViewBudgets == \E now \in ViewMoments : ManageBudgetView(now)

BudgetToolNext == ViewAddTransaction \/ ViewCreateBudget \/ ViewBudgets

SpecBudgetTool == Init /\ [][BudgetToolNext]_vars

\* the expenses of a category dated in the calendar month of `now`
RECURSIVE MonthSpent(_, _, _)
MonthSpent(ts, category, now) ==
    IF ts = <<>> THEN 0
    ELSE (IF /\ Head(ts).transaction_type = EXPENSE
             /\ Head(ts).category = category
             /\ MonthOf(Head(ts).date) = MonthOf(now)
          THEN Head(ts).amount ELSE 0)
         + MonthSpent(Tail(ts), category, now)

\* the expenses of a category dated from the first of the month up to `now`
RECURSIVE MonthToDateSpent(_, _, _)
MonthToDateSpent(ts, category, now) ==
    IF ts = <<>> THEN 0
    ELSE (IF /\ Head(ts).transaction_type = EXPENSE
             /\ Head(ts).category = category
             /\ MonthOf(Head(ts).date) = MonthOf(now)
             /\ Head(ts).date <= now
          THEN Head(ts).amount ELSE 0)
         + MonthToDateSpent(Tail(ts), category, now)

\* the budgets without an end date, in the order of the table
OpenBudgets == SelectSeq(budgets, LAMBDA b : b.end_date = NoneDate)

\* the step is a view that found open budgets
IsBudgetView ==
    /\ result'.op = "manage_budget"
    /\ result'.action = "view"
    /\ OpenBudgets # <<>>

\* C26: the budget view reports, for each open budget and only for open
\* budgets, spent = the category's expenses of the current calendar month
\* (0 when there are none) and remaining = amount - spent, and leaves the
\* budgets and the transactions unchanged.
C26_ViewReportsCalendarMonth ==
    [][ IsBudgetView =>
          /\ UNCHANGED <<transactions, budgets, goals>>
          /\ Len(result'.value) = Len(OpenBudgets)
          /\ \A i \in DOMAIN OpenBudgets :
                LET spent == MonthSpent(transactions, OpenBudgets[i].category,
                                        result'.now)
                IN  result'.value[i] =
                       [category |-> OpenBudgets[i].category,
                        amount |-> OpenBudgets[i].amount,
                        spent |-> spent,
                        remaining |-> OpenBudgets[i].amount - spent] ]_vars

\* what the view does report: the expenses from the first of the month up
\* to the moment of the view
C26_ViewReportsMonthToDate ==
    [][ IsBudgetView =>
          /\ UNCHANGED <<transactions, budgets, goals>>
          /\ Len(result'.value) = Len(OpenBudgets)
          /\ \A i \in DOMAIN OpenBudgets :
                LET spent == MonthToDateSpent(transactions,
                                              OpenBudgets[i].category,
                                              result'.now)
                IN  result'.value[i] =
                       [category |-> OpenBudgets[i].category,
                        amount |-> OpenBudgets[i].amount,
                        spent |-> spent,
                        remaining |-> OpenBudgets[i].amount - spent] ]_vars

\* the step is a create that lacks the category or the amount
IsCreateWithMissing ==
    /\ result'.op = "manage_budget"
    /\ result'.action = "create"
    /\ result'.category \in {NoneStr, ""} \/ result'.amount = NoneNum

\* C27: manage_budget "create" without a category or without an amount
\* returns an error string and leaves the store unchanged: no budget row is
\* inserted and no open budget gets an end date.
C27_CreateWithMissingArgs ==
    [][ IsCreateWithMissing =>
          /\ result'.value =
                "Error: Category and amount required for creating budget"
          /\ UNCHANGED <<transactions, budgets, goals>> ]_vars

\* with an open budget stored, a create without an amount was refused
C27_Witness ==
    /\ OpenBudgets # <<>>
    /\ result.op = "manage_budget"
    /\ result.action = "create"
    /\ result.category = "Shopping"
    /\ result.amount = NoneNum
    /\ result.value = "Error: Category and amount required for creating budget"

\* the step is a create_ticket that reported success
IsSuccessfulCreate ==
    /\ result'.op = "create_ticket"
    /\ result'.value = "created successfully"

\* C28: every successful create_ticket adds a new ticket document and never
\* overwrites an existing one, so n successful calls leave n tickets with n
\* distinct ids, also when two calls fall within the same clock second.
C28_CreateAddsNewTicket ==
    [][ IsSuccessfulCreate =>
          /\ ~Exists(result'.ticket_id)
          /\ DOMAIN tickets' = DOMAIN tickets \cup {result'.ticket_id}
          /\ \A id \in DOMAIN tickets : tickets'[id] = tickets[id] ]_vars

(***************************************************************************)
(* create_budget run from two storage connections.  Each DatabaseManager   *)
(* has its own session: the query reads the committed rows, the end dates  *)
(* are stamped on the session's objects, the new row is added to the       *)
(* session, and the commit writes the stamped rows and the new row in one  *)
(* transaction of the storage engine.                                      *)
(***************************************************************************)

Connections == {1, 2}

\* create_budget calls that have read and not yet committed
InFlight == { c \in Connections : connections[c].pc # "idle" }

\* the query: old_budgets are the open budgets of the category as committed
ReadOpenBudgets(c, category, amount) ==
    /\ connections[c].pc = "idle"
    /\ Len(budgets) + Cardinality(InFlight) < MaxBudgets
    /\ connections' =
          [connections EXCEPT ![c] =
             [pc |-> "read", category |-> category, amount |-> amount,
              old_budgets |-> { i \in 1..Len(budgets) :
                                  /\ budgets[i].category = category
                                  /\ budgets[i].end_date = NoneDate }]]
    /\ UNCHANGED <<finVars, result, ticketVars, agentVars, reportVars,
                   researchVars>>

\* the loop: budget.end_date = datetime.now() on the session's objects
StampEndDates(c, now) ==
    /\ connections[c].pc = "read"
    /\ connections' =
          [connections EXCEPT ![c] =
             [pc |-> "stamped", category |-> connections[c].category,
              amount |-> connections[c].amount,
              old_budgets |-> connections[c].old_budgets,
              end_date |-> now]]
    /\ UNCHANGED <<finVars, result, ticketVars, agentVars, reportVars,
                   researchVars>>

\* session.add(budget): the new row is pending in the session
InsertBudget(c) ==
    /\ connections[c].pc = "stamped"
    /\ connections' = [connections EXCEPT ![c].pc = "added"]
    /\ UNCHANGED <<finVars, result, ticketVars, agentVars, reportVars,
                   researchVars>>

\* the table after the commit of connection c: the rows it stamped get their
\* end date, the new row takes the next id
committed_budgets(c, now) ==
    Append([i \in 1..Len(budgets) |->
               IF i \in connections[c].old_budgets
               THEN [budgets[i] EXCEPT !.end_date = connections[c].end_date]
               ELSE budgets[i]],
           Budget(Len(budgets) + 1, connections[c].category,
                  connections[c].amount, "monthly", now))

\* session.commit(): the engine either takes the write or, the file being
\* locked by the other writer for too long, refuses it
Commit(c, now, locked) ==
    /\ connections[c].pc = "added"
    /\ connections' = [connections EXCEPT ![c] = [pc |-> "idle"]]
    /\ IF locked
       THEN /\ result' = [op |-> "create_budget", connection |-> c,
                          call |-> Raise("OperationalError",
                                         "database is locked")]
            /\ UNCHANGED budgets
       ELSE /\ budgets' = committed_budgets(c, now)
            /\ result' = [op |-> "create_budget", connection |-> c,
                          call |-> Return(budgets'[Len(budgets')])]
    /\ UNCHANGED <<transactions, goals, ticketVars, agentVars, reportVars,
                   researchVars>>

ConcurrentNext ==
    \/ \E c \in Connections, category \in Categories,
          amount \in BudgetAmounts : ReadOpenBudgets(c, category, amount)
    \/ \E c \in Connections, now \in Dates : StampEndDates(c, now)
    \/ \E c \in Connections : InsertBudget(c)
    \/ \E c \in Connections, now \in Dates, locked \in BOOLEAN :
          Commit(c, now, locked)

SpecConcurrent == Init /\ [][ConcurrentNext]_vars

\* C29: when two create_budget calls for the same category run from
\* separate connections and their steps interleave, no reachable state has
\* two open budgets for that category.
C29_OneOpenBudgetWhenInterleaved ==
    \A i, j \in 1..Len(budgets) :
       (/\ budgets[i].category = budgets[j].category
        /\ budgets[i].end_date = NoneDate
        /\ budgets[j].end_date = NoneDate) => i = j

(***************************************************************************)
(* The session of an agent wrapper.  The wrappers build their own          *)
(* InMemorySessionService; creating a session in it under an id it does    *)
(* not hold succeeds.                                                      *)
(***************************************************************************)

SessionReadLine == \E line \in Lines : MainLoop(line, TRUE)

SessionRecreate == RecreateSession(TRUE)

SessionNext ==
    \/ ConstructAgent
    \/ SessionReadLine
    \/ CallQuery
    \/ Run
    \/ SessionRecreate

SpecSession == Init /\ [][SessionNext]_vars

====
